---- MODULE Spec2Model ----
(***************************************************************************)
(* Emotion diary: the in-process event bus (event_bus.py), the Dedup agent *)
(* (agents/dedup.py), the Router agent (agents/router.py) and the webhook  *)
(* listener (bot/transport.py), run by a single asyncio event loop.        *)
(*                                                                         *)
(* An action is one uninterrupted run of code between two suspension       *)
(* points of the event loop.  Timestamps are integers: one unit is five    *)
(* minutes, so the default window of ten minutes is Window = 2.            *)
(***************************************************************************)
EXTENDS Integers, Sequences, FiniteSets, TLC

\* ------------------------------------------------------------------ bounds
MaxTs == 3        \* timestamps range over 0..MaxTs
MaxOrder == 3     \* updates are delivered while the FIFO holds fewer pairs
MaxSubs == 3      \* subscription entries in the table (bus specification)
MaxCalls == 3     \* calls of get_updates made by one run of run_polling

\* --------------------------------------------------------------- constants
Window == 2       \* Dedup.window, timedelta(minutes=10), in units of 5 min
None == -9        \* Python None where the other values are integers
NoneStr == "<None>"   \* Python None where the other values are strings

Ts == 0..MaxTs
Ids == {1, 2}
ChatIds == {7}

\* ------------------------------------------------------------ dictionaries
EmptyDict == [k \in {} |-> None]
DictGet(d, k) == IF k \in DOMAIN d THEN d[k] ELSE None
DictGetStr(d, k) == IF k \in DOMAIN d THEN d[k] ELSE NoneStr
DictSet(d, k, v) == [x \in DOMAIN d \cup {k} |-> IF x = k THEN v ELSE d[x]]
DictPop(d, k) == [x \in DOMAIN d \ {k} |-> d[x]]
\* metadata.get("dedup_passed") taken as a truth value
DedupPassed(metadata) ==
    IF "dedup_passed" \in DOMAIN metadata THEN metadata["dedup_passed"] ELSE FALSE
\* a faulty variant: the metadata is passed on without the annotation
AnnotateNothing(metadata) == metadata

\* {**metadata, "dedup_passed": True}
Annotate(metadata) == DictSet(metadata, "dedup_passed", TRUE)

VARIABLES
    subscribers,   \* EventBus._subscribers: topic -> sequence of handlers
    pubs,          \* publish calls of the current round, in call order
    tasks,         \* handler tasks created by those calls (ensure_future)
    seen,          \* Dedup._seen: update id -> timestamp
    order,         \* Dedup._order: FIFO of <<update id, timestamp>>
    flushPc,       \* Dedup.flush: "idle", or "sleeping" in asyncio.sleep(0)
    idents,        \* chat ids with an identity record (Storage)
    clock,         \* the wall clock read by datetime.now(UTC)
    lastRepub,     \* history: id -> timestamp of its last republish since flush
    lastRecorded,  \* history: timestamp recorded last since flush, or None
    tableCall,     \* history: the last subscribe or clear call and its outcome
    wh,            \* WebhookServer.process_request: the call and its result
    routed,        \* history: what the Router last resolved in this round
    norm,          \* normalize_update: the last call, its result, its re-application
    poll,          \* run_polling: position, offset, the batch in hand, the calls made
    srv            \* run_webhook: position of the coroutine and of the server

vars == <<subscribers, pubs, tasks, seen, order, flushPc, idents, clock,
          lastRepub, lastRecorded, tableCall, wh, routed, norm, poll, srv>>

\* ---------------------------------------------------------------- handlers
DedupH == "Dedup.handle_update"
RouterH == "Router.handle_update"
SinkH == {"CheckinWriter.handle", "Export.handle", "Delete.handle"}
SyncH == {"sync_ok", "sync_raises"}
AsyncH == {"async_ok", "async_raises"}
\* a handler whose call returns an awaitable (inspect.isawaitable)
IsAwaitable(h) == h \in {DedupH, RouterH} \cup SinkH \cup AsyncH
\* a handler that raises when it is called
RaisesOnCall(h) == h = "sync_raises"
\* an awaitable that ends with an exception
RaisesInTask(h) == h = "async_raises"

\* ------------------------------------------------------------------- Dedup
\* Dedup._prune: pop the head of the FIFO while it is older than the window,
\* dropping the popped identifier from the mapping.
RECURSIVE Prune(_, _, _)
Prune(s, o, now) ==
    IF o # <<>> /\ now - o[1][2] > Window
    THEN Prune(DictPop(s, o[1][1]), Tail(o), now)
    ELSE [seen |-> s, order |-> o]

\* the timestamp Dedup uses: payload["ts"] when it is a datetime, else now()
DedupTimestamp(payload, now) ==
    IF DictGet(payload, "ts") \in Ts THEN DictGet(payload, "ts") ELSE now

\* `existing and timestamp - existing <= self.window`
IsDuplicate(existing, timestamp) ==
    existing # None /\ timestamp - existing <= Window

\* a faulty variant: the guard `if update_id is None` is missing, so updates
\* without identifier go through the cache under the key None
DedupDecideNoneCached(s, o, event, now) ==
    LET keep == [seen |-> s, order |-> o, republish |-> FALSE, recorded |-> FALSE]
        update_id == DictGet(event.payload, "update_id")
        timestamp == DedupTimestamp(event.payload, now)
        existing == DictGet(s, update_id)
        pruned == Prune(DictSet(s, update_id, timestamp),
                        Append(o, <<update_id, timestamp>>), timestamp)
    IN  IF DedupPassed(event.metadata) THEN keep
        ELSE IF IsDuplicate(existing, timestamp) THEN keep
        ELSE [seen |-> pruned.seen, order |-> pruned.order,
              republish |-> TRUE, recorded |-> TRUE]

\* a faulty variant: a duplicate within the window refreshes the cached
\* timestamp
DedupDecideRefresh(s, o, event, now) ==
    LET keep == [seen |-> s, order |-> o, republish |-> FALSE, recorded |-> FALSE]
        update_id == DictGet(event.payload, "update_id")
        timestamp == DedupTimestamp(event.payload, now)
        existing == DictGet(s, update_id)
        pruned == Prune(DictSet(s, update_id, timestamp),
                        Append(o, <<update_id, timestamp>>), timestamp)
    IN  IF DedupPassed(event.metadata) THEN keep
        ELSE IF update_id = None THEN [keep EXCEPT !.republish = TRUE]
        ELSE IF IsDuplicate(existing, timestamp)
        THEN [keep EXCEPT !.seen = DictSet(s, update_id, timestamp)]
        ELSE [seen |-> pruned.seen, order |-> pruned.order,
              republish |-> TRUE, recorded |-> TRUE]

\* a faulty variant: the guard on the dedup_passed annotation is missing, an
\* annotated update is checked against the cache like any other
DedupDecideRecheck(s, o, event, now) ==
    LET keep == [seen |-> s, order |-> o, republish |-> FALSE, recorded |-> FALSE]
        update_id == DictGet(event.payload, "update_id")
        timestamp == DedupTimestamp(event.payload, now)
        existing == DictGet(s, update_id)
        pruned == Prune(DictSet(s, update_id, timestamp),
                        Append(o, <<update_id, timestamp>>), timestamp)
    IN  IF update_id = None THEN [keep EXCEPT !.republish = TRUE]
        ELSE IF IsDuplicate(existing, timestamp) THEN keep
        ELSE [seen |-> pruned.seen, order |-> pruned.order,
              republish |-> TRUE, recorded |-> TRUE]

\* Dedup.handle_update up to its publish: the cache after the call, whether the
\* event is republished, and whether it was recorded in the cache.
DedupDecide(s, o, event, now) ==
    LET keep == [seen |-> s, order |-> o, republish |-> FALSE, recorded |-> FALSE]
        update_id == DictGet(event.payload, "update_id")
        timestamp == DedupTimestamp(event.payload, now)
        existing == DictGet(s, update_id)
        pruned == Prune(DictSet(s, update_id, timestamp),
                        Append(o, <<update_id, timestamp>>), timestamp)
    IN  IF DedupPassed(event.metadata) THEN keep
        ELSE IF update_id = None THEN [keep EXCEPT !.republish = TRUE]
        ELSE IF IsDuplicate(existing, timestamp) THEN keep
        ELSE [seen |-> pruned.seen, order |-> pruned.order,
              republish |-> TRUE, recorded |-> TRUE]

\* ----------------------------------------------------------------- strings
\* A Python string is a sequence of characters, each a one-character string;
\* a character outside ASCII is named by its code point.  Chars gives the
\* characters of the strings that payloads carry: "<emotion>" stands for the
\* word of _resolve_command, "mood:<U+2212>1" for mood: with a minus sign
\* U+2212 before the 1.
Chars(s) ==
    CASE s = "" -> <<>>
      [] s = "/export" -> <<"/", "e", "x", "p", "o", "r", "t">>
      [] s = " /Export " -> <<" ", "/", "E", "x", "p", "o", "r", "t", " ">>
      [] s = "/export mood" -> <<"/", "e", "x", "p", "o", "r", "t", " ", "m", "o", "o", "d">>
      [] s = "/delete" -> <<"/", "d", "e", "l", "e", "t", "e">>
      [] s = "/start" -> <<"/", "s", "t", "a", "r", "t">>
      [] s = "/checkin" -> <<"/", "c", "h", "e", "c", "k", "i", "n">>
      [] s = "/checkin good" -> <<"/", "c", "h", "e", "c", "k", "i", "n", " ", "g", "o", "o", "d">>
      [] s = "/checkin  Great " -> <<"/", "c", "h", "e", "c", "k", "i", "n", " ", " ", "G", "r", "e", "a", "t", " ">>
      [] s = "/checkin 1" -> <<"/", "c", "h", "e", "c", "k", "i", "n", " ", "1">>
      [] s = "/checkin 7" -> <<"/", "c", "h", "e", "c", "k", "i", "n", " ", "7">>
      [] s = "/checkin x" -> <<"/", "c", "h", "e", "c", "k", "i", "n", " ", "x">>
      [] s = " /checkin good" -> <<" ", "/", "c", "h", "e", "c", "k", "i", "n", " ", "g", "o", "o", "d">>
      [] s = "good" -> <<"g", "o", "o", "d">>
      [] s = " Good " -> <<" ", "G", "o", "o", "d", " ">>
      [] s = "bad" -> <<"b", "a", "d">>
      [] s = "terrible" -> <<"t", "e", "r", "r", "i", "b", "l", "e">>
      [] s = "meh" -> <<"m", "e", "h">>
      [] s = "ok" -> <<"o", "k">>
      [] s = "great" -> <<"g", "r", "e", "a", "t">>
      [] s = "my mood" -> <<"m", "y", " ", "m", "o", "o", "d">>
      [] s = "feeling" -> <<"f", "e", "e", "l", "i", "n", "g">>
      [] s = "<emotion>" -> <<"U+044D", "U+043C", "U+043E", "U+0446", "U+0438", "U+044F">>
      [] s = "hello" -> <<"h", "e", "l", "l", "o">>
      [] s = "mood:" -> <<"m", "o", "o", "d", ":">>
      [] s = "mood:1" -> <<"m", "o", "o", "d", ":", "1">>
      [] s = "mood:+1" -> <<"m", "o", "o", "d", ":", "+", "1">>
      [] s = "mood:-1" -> <<"m", "o", "o", "d", ":", "-", "1">>
      [] s = "mood:<U+2212>1" -> <<"m", "o", "o", "d", ":", "U+2212", "1">>
      [] s = "mood:0" -> <<"m", "o", "o", "d", ":", "0">>
      [] s = "mood:7" -> <<"m", "o", "o", "d", ":", "7">>
      [] s = "mood:x" -> <<"m", "o", "o", "d", ":", "x">>
      [] s = " mood: 1 " -> <<" ", "m", "o", "o", "d", ":", " ", "1", " ">>
      [] s = "MOOD:1" -> <<"M", "O", "O", "D", ":", "1">>
      [] s = "mood" -> <<"m", "o", "o", "d">>
      [] s = "1" -> <<"1">>
      [] s = "7" -> <<"7">>
      [] s = "-1" -> <<"-", "1">>
      [] s = "x" -> <<"x">>

\* the whitespace characters of the strings of the model
Whitespace == {" "}
\* str.lower() of one character: the capital letters of the strings of the
\* model
LowerChar(c) ==
    CASE c = "E" -> "e"
      [] c = "G" -> "g"
      [] c = "M" -> "m"
      [] c = "O" -> "o"
      [] c = "D" -> "d"
      [] OTHER -> c
\* str.lower()
Lower(q) == [i \in 1..Len(q) |-> LowerChar(q[i])]
RECURSIVE LStrip(_)
LStrip(q) == IF q # <<>> /\ q[1] \in Whitespace THEN LStrip(Tail(q)) ELSE q
RECURSIVE RStrip(_)
RStrip(q) ==
    IF q # <<>> /\ q[Len(q)] \in Whitespace
    THEN RStrip(SubSeq(q, 1, Len(q) - 1)) ELSE q
\* str.strip()
Strip(q) == RStrip(LStrip(q))
\* str.strip().lower()
StripLower(q) == Lower(Strip(q))
\* str.startswith(p)
StartsWith(q, p) == Len(p) <= Len(q) /\ SubSeq(q, 1, Len(p)) = p
\* p in q
Contains(q, p) ==
    \E i \in 1..(Len(q) - Len(p) + 1) : SubSeq(q, i, i + Len(p) - 1) = p
\* any(token in data for token in {"mood", "feeling", "эмоция"})
HasMoodToken(q) ==
    \E token \in {Chars("mood"), Chars("feeling"), Chars("<emotion>")} :
        Contains(q, token)
\* str.split(): the maximal runs of characters that are not whitespace
RECURSIVE SplitFrom(_, _, _)
SplitFrom(q, word, acc) ==
    IF q = <<>> THEN (IF word = <<>> THEN acc ELSE Append(acc, word))
    ELSE IF q[1] \in Whitespace
         THEN SplitFrom(Tail(q), <<>>, IF word = <<>> THEN acc ELSE Append(acc, word))
         ELSE SplitFrom(Tail(q), Append(word, q[1]), acc)
Split(q) == SplitFrom(q, <<>>, <<>>)
\* the value of a decimal digit
Digit(c) ==
    CASE c = "0" -> 0 [] c = "1" -> 1 [] c = "2" -> 2 [] c = "3" -> 3
      [] c = "4" -> 4 [] c = "5" -> 5 [] c = "6" -> 6 [] c = "7" -> 7
      [] c = "8" -> 8 [] c = "9" -> 9 [] OTHER -> None
RECURSIVE Decimal(_, _)
Decimal(q, acc) ==
    IF q = <<>> THEN acc ELSE Decimal(Tail(q), 10 * acc + Digit(q[1]))
\* int(s): surrounding whitespace is dropped, then an optional sign and one
\* or more digits; None stands for ValueError
IntOf(q) ==
    LET s == Strip(q)
        signed == s # <<>> /\ s[1] \in {"+", "-"}
        digits == IF signed THEN Tail(s) ELSE s
        value == Decimal(digits, 0)
    IN  IF digits = <<>> \/ \E i \in 1..Len(digits) : Digit(digits[i]) = None
        THEN None
        ELSE IF signed /\ s[1] = "-" THEN 0 - value ELSE value
\* str.partition(":")[2]: what follows the first colon
RECURSIVE AfterColon(_)
AfterColon(q) ==
    IF q = <<>> THEN <<>>
    ELSE IF q[1] = ":" THEN Tail(q) ELSE AfterColon(Tail(q))
\* callback_data.partition(":")[2].strip().replace("\u2212", "-")
MoodPart(q) ==
    LET part == Strip(AfterColon(q))
    IN  [i \in 1..Len(part) |-> IF part[i] = "U+2212" THEN "-" ELSE part[i]]

\* ------------------------------------------------------------------ Router
\* the value of the mood field of a payload: none, an int or a str
NoMood == [none |-> TRUE]
IntMood(n) == [int |-> n]
StrMood(s) == [str |-> s]
MoodField(payload) ==
    IF "mood" \in DOMAIN payload THEN payload["mood"] ELSE NoMood
\* int(mood_value): None stands for TypeError and ValueError
IntOfValue(v) ==
    IF "int" \in DOMAIN v THEN v.int
    ELSE IF "str" \in DOMAIN v THEN IntOf(Chars(v.str))
    ELSE None
\* the word map of _resolve_mood: mapping.get(w)
MoodWord(w) ==
    CASE w \in {Chars("bad"), Chars("terrible")} -> 0 - 1
      [] w \in {Chars("meh"), Chars("ok")} -> 0
      [] w \in {Chars("good"), Chars("great")} -> 1
      [] OTHER -> None
Moods == {0 - 1, 0, 1}

\* the string _resolve_command examines: callback_data when it is a str,
\* else text when it is a str, else "", stripped and lower-cased
Examined(payload) ==
    LET callback == DictGetStr(payload, "callback_data")
        text == DictGetStr(payload, "text")
    IN  StripLower(IF callback # NoneStr THEN Chars(callback)
                   ELSE IF text # NoneStr THEN Chars(text) ELSE <<>>)

\* a faulty variant: the tokens are looked for before the prefixes
ResolveCommandTokensFirst(payload) ==
    LET data == Examined(payload)
    IN  IF HasMoodToken(data) THEN "checkin"
        ELSE IF StartsWith(data, Chars("/export")) THEN "export"
        ELSE IF StartsWith(data, Chars("/delete")) THEN "delete"
        ELSE IF StartsWith(data, Chars("/start")) THEN "checkin"
        ELSE IF StartsWith(data, Chars("/checkin")) THEN "checkin"
        ELSE IF MoodField(payload) # NoMood THEN "checkin"
        ELSE NoneStr

\* Router._resolve_command
ResolveCommand(payload) ==
    LET data == Examined(payload)
    IN  IF StartsWith(data, Chars("/export")) THEN "export"
        ELSE IF StartsWith(data, Chars("/delete")) THEN "delete"
        ELSE IF StartsWith(data, Chars("/start")) THEN "checkin"
        ELSE IF StartsWith(data, Chars("/checkin")) THEN "checkin"
        ELSE IF HasMoodToken(data) THEN "checkin"
        ELSE IF MoodField(payload) # NoMood THEN "checkin"
        ELSE NoneStr

\* the mood _resolve_mood takes from the text: the second word of a text
\* that starts with /checkin, through the word map and then int(); else
\* the word map on the stripped text
TextMood(payload) ==
    LET text_candidate == DictGetStr(payload, "text")
        text == IF text_candidate # NoneStr THEN Lower(Chars(text_candidate))
                ELSE <<>>
        parts == Split(text)
    IN  IF StartsWith(text, Chars("/checkin"))
        THEN (IF Len(parts) > 1
              THEN (IF MoodWord(parts[2]) # None THEN MoodWord(parts[2])
                    ELSE IntOf(parts[2]))
              ELSE None)
        ELSE MoodWord(Strip(text))

\* a faulty variant: the final check `mood not in {-1, 0, 1}` is missing
ResolveMoodUnchecked(payload) ==
    LET callback_data == DictGetStr(payload, "callback_data")
        stripped == IF callback_data # NoneStr THEN Strip(Chars(callback_data))
                    ELSE <<>>
        isMoodForm == callback_data # NoneStr /\ StartsWith(stripped, Chars("mood:"))
        parsed == IntOf(MoodPart(stripped))
        mood_value == MoodField(payload)
        mood == IF mood_value # NoMood THEN IntOfValue(mood_value)
                ELSE TextMood(payload)
    IN  IF isMoodForm /\ parsed # None
        THEN (IF parsed \in Moods THEN parsed ELSE None)
        ELSE mood

\* a faulty variant: a mood field that does not parse falls back to the text
ResolveMoodFallsBack(payload) ==
    LET callback_data == DictGetStr(payload, "callback_data")
        stripped == IF callback_data # NoneStr THEN Strip(Chars(callback_data))
                    ELSE <<>>
        isMoodForm == callback_data # NoneStr /\ StartsWith(stripped, Chars("mood:"))
        parsed == IntOf(MoodPart(stripped))
        mood_value == MoodField(payload)
        mood == IF mood_value # NoMood /\ IntOfValue(mood_value) # None
                THEN IntOfValue(mood_value)
                ELSE TextMood(payload)
    IN  IF isMoodForm /\ parsed # None
        THEN (IF parsed \in Moods THEN parsed ELSE None)
        ELSE IF mood \in Moods THEN mood ELSE None

\* Router._resolve_mood: a mood of {-1, 0, 1}, or None
ResolveMood(payload) ==
    LET callback_data == DictGetStr(payload, "callback_data")
        stripped == IF callback_data # NoneStr THEN Strip(Chars(callback_data))
                    ELSE <<>>
        isMoodForm == callback_data # NoneStr /\ StartsWith(stripped, Chars("mood:"))
        parsed == IntOf(MoodPart(stripped))
        mood_value == MoodField(payload)
        mood == IF mood_value # NoMood THEN IntOfValue(mood_value)
                ELSE TextMood(payload)
    IN  IF isMoodForm /\ parsed # None
        THEN (IF parsed \in Moods THEN parsed ELSE None)
        ELSE IF mood \in Moods THEN mood ELSE None

\* what a call of the Router resolved: the command (NoneStr: unrecognized)
\* and, for checkin, the mood (None: unresolved)
Routed(command, mood) == [reached |-> TRUE, command |-> command, mood |-> mood]
\* the call returned before _resolve_command
NoRouted == [reached |-> FALSE, command |-> NoneStr, mood |-> None]

\* Storage._hash_chat_id: a deterministic, injective image of the chat id
HashChatId(chat_id) == chat_id + 1000

\* a faulty variant: the request carries the pid alone
RequestPayloadPidOnly(chat_id) == [pid |-> HashChatId(chat_id)]

\* the payload of export.request and of delete.request
RequestPayload(chat_id) == [pid |-> HashChatId(chat_id), chat_id |-> chat_id]

\* The values of the ts field of a payload: None, a datetime of Ts, and
\* values of other types, written as integers outside Ts: the string
\* datetime.isoformat gives for the datetime n, a string that is not
\* ISO-8601, a number.  The strings are the values from IsoString(0) up.
IsoString(n) == 100 + n
NotIsoString == 200
NumberTs == 50

\* datetime.fromisoformat(value) for a string: the datetime the string
\* denotes, ValueError for a string that is not ISO-8601
FromIsoFormat(value) ==
    IF value = NotIsoString THEN [raised |-> "ValueError", value |-> None]
    ELSE [raised |-> NoneStr, value |-> value - 100]

\* a faulty variant: a string is kept as it is
CheckinTsUnparsed(payload, now) ==
    LET ts == DictGet(payload, "ts")
    IN  [raised |-> NoneStr, value |-> IF ts \in Ts \/ ts >= IsoString(0) THEN ts ELSE now]

\* lines 59-63 of handle_update: a string is parsed, and what is not a
\* datetime then is replaced by datetime.now(UTC)
CheckinTs(payload, now) ==
    LET ts == DictGet(payload, "ts")
        parsed == IF ts >= IsoString(0) THEN FromIsoFormat(ts)
                  ELSE [raised |-> NoneStr, value |-> ts]
    IN  [raised |-> parsed.raised,
         value |-> IF parsed.value \in Ts THEN parsed.value ELSE now]

\* a faulty variant: the identity is looked up only when an event is emitted
RouterDecideIdentLate(event, now) ==
    LET payload == event.payload
        chat_id == DictGet(payload, "chat_id")
        command == ResolveCommand(payload)
        mood == ResolveMood(payload)
        request == RequestPayload(chat_id)
        ts == CheckinTs(payload, now)
        note == IF DictGetStr(payload, "note") \notin {NoneStr, ""}
                THEN DictGetStr(payload, "note") ELSE DictGetStr(payload, "text")
        nothing == [ident |-> FALSE, topic |-> NoneStr, payload |-> EmptyDict,
                    routed |-> NoRouted, raised |-> NoneStr]
        resolved == Routed(command, IF command = "checkin" THEN mood ELSE None)
    IN  IF ~DedupPassed(event.metadata) THEN nothing
        ELSE IF chat_id = None THEN nothing
        ELSE IF command = "export"
             THEN [ident |-> TRUE, topic |-> "export.request", payload |-> request,
                   routed |-> resolved, raised |-> NoneStr]
        ELSE IF command = "delete"
             THEN [ident |-> TRUE, topic |-> "delete.request", payload |-> request,
                   routed |-> resolved, raised |-> NoneStr]
        ELSE IF command = "checkin" /\ mood # None /\ ts.raised # NoneStr
             THEN [nothing EXCEPT !.routed = resolved,
                                  !.raised = ts.raised]
        ELSE IF command = "checkin" /\ mood # None
             THEN [ident |-> TRUE, topic |-> "checkin.save",
                   payload |-> [pid |-> HashChatId(chat_id), chat_id |-> chat_id,
                                mood |-> mood, ts |-> ts.value, note |-> note],
                   routed |-> resolved, raised |-> NoneStr]
        ELSE [nothing EXCEPT !.routed = resolved]

\* a faulty variant: the identity is looked up before the guard on chat_id
RouterDecideIdentFirst(event, now) ==
    LET payload == event.payload
        chat_id == DictGet(payload, "chat_id")
        command == ResolveCommand(payload)
        mood == ResolveMood(payload)
        request == RequestPayload(chat_id)
        ts == CheckinTs(payload, now)
        note == IF DictGetStr(payload, "note") \notin {NoneStr, ""}
                THEN DictGetStr(payload, "note") ELSE DictGetStr(payload, "text")
        nothing == [ident |-> FALSE, topic |-> NoneStr, payload |-> EmptyDict,
                    routed |-> NoRouted, raised |-> NoneStr]
        resolved == Routed(command, IF command = "checkin" THEN mood ELSE None)
    IN  IF ~DedupPassed(event.metadata) THEN nothing
        ELSE IF chat_id = None THEN [nothing EXCEPT !.ident = TRUE]
        ELSE IF command = "export"
             THEN [ident |-> TRUE, topic |-> "export.request", payload |-> request,
                   routed |-> resolved, raised |-> NoneStr]
        ELSE IF command = "delete"
             THEN [ident |-> TRUE, topic |-> "delete.request", payload |-> request,
                   routed |-> resolved, raised |-> NoneStr]
        ELSE IF command = "checkin" /\ mood # None /\ ts.raised # NoneStr
             THEN [nothing EXCEPT !.ident = TRUE, !.routed = resolved,
                                  !.raised = ts.raised]
        ELSE IF command = "checkin" /\ mood # None
             THEN [ident |-> TRUE, topic |-> "checkin.save",
                   payload |-> [pid |-> HashChatId(chat_id), chat_id |-> chat_id,
                                mood |-> mood, ts |-> ts.value, note |-> note],
                   routed |-> resolved, raised |-> NoneStr]
        ELSE [nothing EXCEPT !.ident = TRUE, !.routed = resolved]

\* a faulty variant: the guard on dedup_passed is missing
RouterDecideUnguarded(event, now) ==
    LET payload == event.payload
        chat_id == DictGet(payload, "chat_id")
        command == ResolveCommand(payload)
        mood == ResolveMood(payload)
        request == [pid |-> HashChatId(chat_id), chat_id |-> chat_id]
        ts == CheckinTs(payload, now)
        nothing == [ident |-> FALSE, topic |-> NoneStr, payload |-> EmptyDict,
                    routed |-> NoRouted, raised |-> NoneStr]
        resolved == Routed(command, IF command = "checkin" THEN mood ELSE None)
    IN  IF chat_id = None THEN nothing
        ELSE IF command = "export"
             THEN [ident |-> TRUE, topic |-> "export.request", payload |-> request,
                   routed |-> resolved, raised |-> NoneStr]
        ELSE IF command = "delete"
             THEN [ident |-> TRUE, topic |-> "delete.request", payload |-> request,
                   routed |-> resolved, raised |-> NoneStr]
        ELSE IF command = "checkin" /\ mood # None /\ ts.raised # NoneStr
             THEN [nothing EXCEPT !.ident = TRUE, !.routed = resolved,
                                  !.raised = ts.raised]
        ELSE IF command = "checkin" /\ mood # None
             THEN [ident |-> TRUE, topic |-> "checkin.save",
                   payload |-> [pid |-> HashChatId(chat_id), chat_id |-> chat_id,
                                mood |-> mood, ts |-> ts.value,
                                note |-> DictGetStr(payload, "text")],
                   routed |-> resolved, raised |-> NoneStr]
        ELSE [nothing EXCEPT !.ident = TRUE, !.routed = resolved]

\* Router.handle_update up to its publish: whether get_or_create_ident is
\* called, the command and the mood it resolved, and the domain event
\* published (topic NoneStr: none).
RouterDecide(event, now) ==
    LET payload == event.payload
        chat_id == DictGet(payload, "chat_id")
        command == ResolveCommand(payload)
        mood == ResolveMood(payload)
        request == RequestPayload(chat_id)
        ts == CheckinTs(payload, now)
        note == IF DictGetStr(payload, "note") \notin {NoneStr, ""}
                THEN DictGetStr(payload, "note") ELSE DictGetStr(payload, "text")
        nothing == [ident |-> FALSE, topic |-> NoneStr, payload |-> EmptyDict,
                    routed |-> NoRouted, raised |-> NoneStr]
        resolved == Routed(command, IF command = "checkin" THEN mood ELSE None)
    IN  IF ~DedupPassed(event.metadata) THEN nothing
        ELSE IF chat_id = None THEN nothing
        ELSE IF command = "export"
             THEN [ident |-> TRUE, topic |-> "export.request", payload |-> request,
                   routed |-> resolved, raised |-> NoneStr]
        ELSE IF command = "delete"
             THEN [ident |-> TRUE, topic |-> "delete.request", payload |-> request,
                   routed |-> resolved, raised |-> NoneStr]
        ELSE IF command = "checkin" /\ mood # None /\ ts.raised # NoneStr
             THEN [nothing EXCEPT !.ident = TRUE, !.routed = resolved,
                                  !.raised = ts.raised]
        ELSE IF command = "checkin" /\ mood # None
             THEN [ident |-> TRUE, topic |-> "checkin.save",
                   payload |-> [pid |-> HashChatId(chat_id), chat_id |-> chat_id,
                                mood |-> mood, ts |-> ts.value, note |-> note],
                   routed |-> resolved, raised |-> NoneStr]
        ELSE [nothing EXCEPT !.ident = TRUE, !.routed = resolved]

\* ----------------------------------------------------------------- Webhook
\* WebhookServer.secret, as the tests configure it
Secret == "secret"
SecretHeader == "x-telegram-bot-api-secret-token"

\* The bodies of the model, by what json.loads(body.decode("utf-8")) does:
\* bytes that are not UTF-8, text that is not JSON, a JSON value that is not
\* an object, and JSON objects (updates of the chat platform).
JsonObject(update_id, chat_id, text, date) ==
    [kind |-> "object", update_id |-> update_id, chat_id |-> chat_id,
     text |-> text, date |-> date]
Bodies ==
    {[kind |-> "not_utf8"], [kind |-> "not_json"], [kind |-> "array"]} \cup
    {JsonObject(i, c, x, None) :
        i \in {None, 1}, c \in {None} \cup ChatIds, x \in {"/export", "hello"}}

\* body.decode("utf-8"): UnicodeDecodeError for bytes that are not UTF-8;
\* json.loads: JSONDecodeError for text that is not JSON
JsonLoads(body) ==
    CASE body.kind = "not_utf8" -> [raised |-> "UnicodeDecodeError", value |-> body]
      [] body.kind = "not_json" -> [raised |-> "JSONDecodeError", value |-> body]
      [] OTHER -> [raised |-> NoneStr, value |-> body]

\* normalize_update(update): update.get raises AttributeError on a JSON value
\* that is not an object; the fields of the message of an object, and
\* ts = now unless the date gave one
NormalizeUpdate(update, now) ==
    IF update.kind # "object"
    THEN [raised |-> "AttributeError", payload |-> EmptyDict]
    ELSE [raised |-> NoneStr,
          payload |-> [update_id |-> update.update_id,
                       ts |-> IF update.date \in Ts THEN update.date ELSE now,
                       chat_id |-> update.chat_id, text |-> update.text,
                       callback_data |-> NoneStr, mood |-> NoMood, note |-> NoneStr]]

\* the state of a call of process_request: awaiting publish, returned with
\* (status, response), or ended by an exception
Request(pc, method, headers, body, status, response, raised) ==
    [pc |-> pc, method |-> method, headers |-> headers, body |-> body,
     status |-> status, response |-> response, raised |-> raised]
NoRequest == Request("idle", NoneStr, EmptyDict, [kind |-> "none"], None, NoneStr, NoneStr)

\* process_request after its await of publish: it returns the result
AfterAwait(w) == IF w.pc = "publishing" THEN [w EXCEPT !.pc = "returned"] ELSE w

\* a faulty variant: the secret is compared after the update was published
ProcessDecideSecretLate(method, headers, body, now) ==
    LET token == DictGetStr(headers, SecretHeader)
        loaded == JsonLoads(body)
        normalized == NormalizeUpdate(loaded.value, now)
        result(status, response, raised) ==
            [status |-> status, response |-> response, raised |-> raised,
             publish |-> FALSE, payload |-> EmptyDict]
        denied == token \in {NoneStr, ""} \/ token # Secret
    IN  IF method # "POST" THEN result(405, "", NoneStr)
        ELSE IF loaded.raised = "JSONDecodeError" THEN result(400, "", NoneStr)
        ELSE IF loaded.raised # NoneStr THEN result(None, NoneStr, loaded.raised)
        ELSE IF normalized.raised # NoneStr
             THEN result(None, NoneStr, normalized.raised)
        ELSE [status |-> IF denied THEN 403 ELSE 200,
              response |-> IF denied THEN "" ELSE "{}",
              raised |-> NoneStr, publish |-> TRUE, payload |-> normalized.payload]

\* WebhookServer.process_request: the result it returns or the exception it
\* raises, and the payload it publishes before it returns
ProcessDecide(method, headers, body, now) ==
    LET token == DictGetStr(headers, SecretHeader)
        loaded == JsonLoads(body)
        normalized == NormalizeUpdate(loaded.value, now)
        result(status, response, raised) ==
            [status |-> status, response |-> response, raised |-> raised,
             publish |-> FALSE, payload |-> EmptyDict]
    IN  IF method # "POST" THEN result(405, "", NoneStr)
        ELSE IF token \in {NoneStr, ""} \/ token # Secret
             THEN result(403, "", NoneStr)
        ELSE IF loaded.raised = "JSONDecodeError" THEN result(400, "", NoneStr)
        ELSE IF loaded.raised # NoneStr THEN result(None, NoneStr, loaded.raised)
        ELSE IF normalized.raised # NoneStr
             THEN result(None, NoneStr, normalized.raised)
        ELSE [status |-> 200, response |-> "{}", raised |-> NoneStr,
              publish |-> TRUE, payload |-> normalized.payload]

\* -------------------------------------------------------- Update normalizer
\* A raw update is a JSON object: a function from the keys it has to their
\* values.  A date is a number of epoch seconds, a number that datetime
\* cannot hold (1e400, 10**20), an ISO-8601 string or another string; a
\* missing date reads as None.
NumDate(n) == [num |-> n]
HugeDate == [huge |-> TRUE]
IsoDate(n) == [iso |-> n]
BadDate == [str |-> "soon"]
NoDate == [none |-> TRUE]
\* a datetime instance
Datetime(n) == [datetime |-> n]
\* a JSON value that is not an object
JsonArray == [json_array |-> <<1, 2>>]
\* isinstance(value, Mapping)
IsMapping(value) == "json_array" \notin DOMAIN value

\* dict.update
DictUpdate(d, e) ==
    [k \in DOMAIN d \cup DOMAIN e |-> IF k \in DOMAIN e THEN e[k] ELSE d[k]]

\* a faulty variant: a string that is not ISO-8601 is kept as it is
ParseTimestampRaw(value) ==
    IF "num" \in DOMAIN value THEN [raised |-> NoneStr, value |-> Datetime(value.num)]
    ELSE IF "huge" \in DOMAIN value THEN [raised |-> "OverflowError", value |-> NoDate]
    ELSE IF "iso" \in DOMAIN value THEN [raised |-> NoneStr, value |-> Datetime(value.iso)]
    ELSE [raised |-> NoneStr, value |-> value]

\* _parse_timestamp(value): datetime.fromtimestamp(int(value)) raises
\* OverflowError (ValueError) for a number out of range; fromisoformat
\* raises ValueError, which is caught, for a string that is not ISO-8601
ParseTimestamp(value) ==
    IF "num" \in DOMAIN value THEN [raised |-> NoneStr, value |-> Datetime(value.num)]
    ELSE IF "huge" \in DOMAIN value THEN [raised |-> "OverflowError", value |-> NoDate]
    ELSE IF "iso" \in DOMAIN value THEN [raised |-> NoneStr, value |-> Datetime(value.iso)]
    ELSE [raised |-> NoneStr, value |-> NoDate]

\* dict.update over a sequence of dictionaries: for each key the value of the
\* last dictionary that has it
Merged(ds) ==
    [k \in UNION {DOMAIN ds[i] : i \in 1..Len(ds)} |->
        ds[CHOOSE i \in 1..Len(ds) :
              /\ k \in DOMAIN ds[i]
              /\ \A j \in (i + 1)..Len(ds) : k \notin DOMAIN ds[j]][k]]

\* _extract_message_fields(message): chat_id for a chat id that is not None,
\* text and message_id for a key that is present, ts for a date that parses
ExtractMessageFields(message) ==
    LET chat == IF "chat" \in DOMAIN message THEN message["chat"] ELSE EmptyDict
        parsed_ts == ParseTimestamp(IF "date" \in DOMAIN message
                                    THEN message["date"] ELSE NoDate)
        keys == {k \in {"chat_id", "text", "message_id", "ts"} :
                    CASE k = "chat_id" -> DictGet(chat, "id") # None
                      [] k = "ts" -> parsed_ts.value # NoDate
                      [] OTHER -> k \in DOMAIN message}
    IN  [raised |-> parsed_ts.raised,
         fields |-> [k \in keys |->
                        CASE k = "chat_id" -> chat["id"]
                          [] k = "ts" -> parsed_ts.value
                          [] OTHER -> message[k]]]

NoFields == [raised |-> NoneStr, fields |-> EmptyDict]

\* _extract_callback_fields(callback): callback_data for data that is not
\* None, then the fields of the nested message, then from_id unless the key
\* is set (setdefault)
ExtractCallbackFields(callback) ==
    LET data == IF "data" \in DOMAIN callback /\ callback["data"] # NoneStr
                THEN [callback_data |-> callback["data"]] ELSE EmptyDict
        message == IF "message" \in DOMAIN callback
                   THEN ExtractMessageFields(callback["message"]) ELSE NoFields
        from_user == IF "from" \in DOMAIN callback THEN callback["from"] ELSE EmptyDict
        from_id == IF DictGet(from_user, "id") # None
                   THEN [from_id |-> from_user["id"]] ELSE EmptyDict
    IN  [raised |-> message.raised,
         fields |-> Merged(<<from_id, data, message.fields>>)]

\* the fields the value of a key of the update gives, in a one-element
\* sequence
Step(update, key) ==
    IF key \notin DOMAIN update THEN <<NoFields>>
    ELSE IF key = "callback_query" THEN <<ExtractCallbackFields(update[key])>>
    ELSE <<ExtractMessageFields(update[key])>>

\* normalize_update once the fields of its steps are known, in the order of
\* their application: the payload, with ts = now unless a step gave one, or
\* the exception of a step
NormalizeSteps(update, raw, steps, now) ==
    IF \E i \in 1..Len(steps) : steps[i].raised # NoneStr
    THEN [raised |-> "OverflowError", payload |-> EmptyDict]
    ELSE [raised |-> NoneStr,
          payload |-> Merged(<<[ts |-> Datetime(now)],
                               [update_id |-> DictGet(update, "update_id"),
                                raw |-> raw]>>
                             \o [i \in 1..Len(steps) |-> steps[i].fields])]

\* a faulty variant: the message fields are applied after the callback's
NormalizeMessageLast(update, now) ==
    IF ~IsMapping(update)
    THEN [raised |-> "AttributeError", payload |-> EmptyDict]
    ELSE NormalizeSteps(update, update,
                        Step(update, "callback_query") \o
                        Step(update, "edited_message") \o Step(update, "message"),
                        now)

\* a faulty variant: raw keeps the update without its callback_query
NormalizeRawWithoutCallback(update, now) ==
    IF ~IsMapping(update)
    THEN [raised |-> "AttributeError", payload |-> EmptyDict]
    ELSE NormalizeSteps(update, DictPop(update, "callback_query"),
                        Step(update, "message") \o Step(update, "edited_message") \o
                        Step(update, "callback_query"),
                        now)

\* normalize_update(update) at time now, the keys of the update being
\* objects where present: update.get raises AttributeError on a value that
\* is not an object, a date out of range raises out of _parse_timestamp;
\* raw is dict(update), a copy with the same items; message, edited_message
\* and callback_query are applied in this order
Normalize(update, now) ==
    IF ~IsMapping(update)
    THEN [raised |-> "AttributeError", payload |-> EmptyDict]
    ELSE NormalizeSteps(update, update,
                        Step(update, "message") \o Step(update, "edited_message") \o
                        Step(update, "callback_query"),
                        now)

\* a call of normalize_update and its outcome; times = 2 when the outcome is
\* that of the call on the raw field of the payload of the call before
Normalized(times, update, now, result) ==
    [times |-> times, update |-> update, now |-> now, raised |-> result.raised,
     payload |-> result.payload, first |-> IF times = 2 THEN norm.payload ELSE EmptyDict]
NoNormalize ==
    [times |-> 0, update |-> EmptyDict, now |-> None, raised |-> NoneStr,
     payload |-> EmptyDict, first |-> EmptyDict]

\* The state of run_polling: where it is ("idle" before the call;
\* suspended in "fetching", "publishing", "idle_delay" or "backoff"; ended
\* "cancelled" or "failed"), its parameter idle_delay in seconds, its
\* offset, the updates of the batch not yet handled, and as history the
\* calls of get_updates (the offset passed, and the highest integer
\* update_id fetched before the call), that highest id, the update_id of
\* every update fetched, the outcome of the last get_updates ("pending",
\* "returned", "failed"), the seconds of the last sleep, the exception that
\* ended it and where it was suspended then.
Polling(pc, idle_delay) ==
    [pc |-> pc, idle_delay |-> idle_delay, offset |-> None, batch |-> <<>>,
     calls |-> <<>>, highest |-> None, ids |-> <<>>, fetch |-> NoneStr,
     wait |-> None,
     raised |-> NoneStr, at |-> NoneStr]
\* run_polling before its call
NoPolling == Polling("idle", None)
\* The state of run_webhook: where it is ("idle" before the call; suspended
\* in "starting" (server.start), "serving" (serve_forever), "leaving" (the
\* exit of async with self._server, inside serve_forever) or "stopping"
\* (server.stop); "ended"), WebhookServer._server ("none", "listening",
\* "closed"), the exception in flight, and as history the way serving ended
\* ("cancelled", "error", "returned"), the calls of stop that closed the
\* server, and the exception run_webhook raised to its caller.
Serving(pc, server) ==
    [pc |-> pc, server |-> server, pending |-> NoneStr, how |-> NoneStr,
     stops |-> 0, raised |-> NoneStr]
\* run_webhook before its call
NoServing == Serving("idle", "none")

\* --------------------------------------------------------------- Event bus
\* self._subscribers.get(name, ())
Lookup(name) == IF name \in DOMAIN subscribers THEN subscribers[name] ELSE <<>>

\* a faulty variant: the wildcard handlers come first
SnapshotWildcardFirst(name) == Lookup("*") \o Lookup(name)

\* a faulty variant: a wildcard handler already subscribed to the topic is
\* dropped
SnapshotDeduplicated(name) ==
    Lookup(name) \o
    SelectSeq(Lookup("*"),
              LAMBDA h : \A i \in 1..Len(Lookup(name)) : Lookup(name)[i] # h)

\* the subscribers of one publish: list(specific) + list(wildcard)
Snapshot(name) == Lookup(name) \o Lookup("*")

\* a faulty variant: no try/except around the call of the handler, the
\* exception of a handler ends the loop and leaves publish
RECURSIVE DispatchNoCatch(_, _, _)
DispatchNoCatch(hs, i, acc) ==
    IF i > Len(hs) THEN acc
    ELSE LET h == hs[i]
             called == [acc EXCEPT !.invoked = Append(@, h)]
         IN  IF RaisesOnCall(h) THEN [called EXCEPT !.raised = TRUE]
             ELSE IF IsAwaitable(h)
                  THEN DispatchNoCatch(hs, i + 1,
                                [called EXCEPT !.awaitables = Append(@, h)])
                  ELSE DispatchNoCatch(hs, i + 1, called)

\* The dispatch loop of publish over the handlers hs from position i on:
\* a handler that raises when called is logged and skipped, an awaitable
\* result is wrapped in a task.
RECURSIVE Dispatch(_, _, _)
Dispatch(hs, i, acc) ==
    IF i > Len(hs) THEN acc
    ELSE LET h == hs[i]
             called == [acc EXCEPT !.invoked = Append(@, h)]
         IN  IF RaisesOnCall(h) THEN Dispatch(hs, i + 1, called)
             ELSE IF IsAwaitable(h)
                  THEN Dispatch(hs, i + 1,
                                [called EXCEPT !.awaitables = Append(@, h)])
                  ELSE Dispatch(hs, i + 1, called)

NoDispatch == [invoked |-> <<>>, awaitables |-> <<>>, raised |-> FALSE]

\* EventBus._lock, an asyncio.Lock: it is held by the publish calls marked
\* locked.  acquire() of a free lock returns without a suspension.
Locked(ps) == \E p \in 1..Len(ps) : ps[p].locked
\* a faulty variant: the lock is kept while the handlers run and are awaited
ReleaseNot(locked) == locked
\* the end of `async with self._lock`, right after the snapshot: release()
Release(locked) == FALSE

\* EventBus.publish up to its gather, called by task `caller` (0: a caller
\* outside the bus): the call is appended to ps, its tasks to ts.  With no
\* awaitable the call has returned already.  A call that finds the lock held
\* waits in acquire(), before its snapshot.
DoPublish(ps, ts, caller, event) ==
    LET d == Dispatch(Snapshot(event.name), 1, NoDispatch)
        p == Len(ps) + 1
        state == IF d.raised THEN "raised"
                 ELSE IF d.awaitables = <<>> THEN "returned" ELSE "gather"
        created == [i \in 1..Len(d.awaitables) |->
                        [handler |-> d.awaitables[i], pub |-> p, state |-> "ready"]]
    IN  IF Locked(ps)
        THEN [pubs |-> Append(ps, [event |-> event, caller |-> caller,
                                   invoked |-> <<>>, state |-> "acquiring",
                                   locked |-> FALSE]),
              tasks |-> ts,
              suspended |-> TRUE]
        ELSE [pubs |-> Append(ps, [event |-> event, caller |-> caller,
                                   invoked |-> d.invoked, state |-> state,
                                   locked |-> Release(TRUE)]),
              tasks |-> ts \o created,
              suspended |-> state = "gather"]

\* the tasks gathered by publish call p
TasksOf(ts, p) == {t \in 1..Len(ts) : ts[t].pub = p}
Finished(task) == task.state \in {"done", "failed"}
\* a faulty variant: gather without return_exceptions=True, which ends with
\* the first exception
GatherFailFast(ts, p) ==
    \/ \A t \in TasksOf(ts, p) : ts[t].state \in {"done", "failed"}
    \/ \E t \in TasksOf(ts, p) : ts[t].state = "failed"

\* a faulty variant: the wait ends with the first task that finishes
GatherFirstDone(ts, p) == \E t \in TasksOf(ts, p) : Finished(ts[t])

\* asyncio.gather(*awaitables, return_exceptions=True) is complete
GatherComplete(ts, p) == \A t \in TasksOf(ts, p) : Finished(ts[t])

\* no publish call is in flight
Quiescent == \A p \in 1..Len(pubs) : pubs[p].state \notin {"acquiring", "gather"}
\* the task the event loop runs next: the oldest one not yet started
IsNext(t) ==
    /\ t \in 1..Len(tasks)
    /\ tasks[t].state = "ready"
    /\ \A u \in 1..(t - 1) : tasks[u].state # "ready"
EventOf(t) == pubs[tasks[t].pub].event
\* the state of a task after a publish it awaited
AfterPublish(suspended) == IF suspended THEN "awaiting" ELSE "done"

\* the record of a call of subscribe or clear: its arguments, the exception
\* it raised, and the lengths of the lists of the table before it
TableCall(op, names, handler, raised) ==
    [op |-> op, names |-> names, handler |-> handler, raised |-> raised,
     before |-> [n \in DOMAIN subscribers |-> Len(subscribers[n])]]
NoTableCall ==
    [op |-> "none", names |-> <<>>, handler |-> NoneStr, raised |-> NoneStr,
     before |-> EmptyDict]

\* the table after handler was appended to the list of each of names
Appended(table, names, handler) ==
    [n \in DOMAIN table |->
        table[n] \o
        [i \in 1..Cardinality({j \in 1..Len(names) : names[j] = n}) |-> handler]]

\* a faulty variant: the check for an empty list of names is missing
SubscribeUnchecked(names, handler) ==
    /\ Quiescent
    /\ subscribers' = Appended(subscribers, names, handler)
    /\ tableCall' = TableCall("subscribe", names, handler, NoneStr)
    /\ pubs' = <<>>
    /\ tasks' = <<>>
    /\ routed' = NoRouted
    /\ UNCHANGED <<norm, poll, srv, seen, order, flushPc, idents, clock, lastRepub, lastRecorded, wh>>

\* EventBus.subscribe(names, handler), names the list of topics (a single
\* string is the list of that one name): ValueError for the empty list.
\* Callers outside the bus subscribe, clear and publish between publish
\* calls, as the agents' constructors and the tests do; the record of the
\* calls that have returned is dropped then.
Subscribe(names, handler) ==
    /\ Quiescent
    /\ IF names = <<>>
       THEN /\ subscribers' = subscribers
            /\ tableCall' = TableCall("subscribe", names, handler, "ValueError")
       ELSE /\ subscribers' = Appended(subscribers, names, handler)
            /\ tableCall' = TableCall("subscribe", names, handler, NoneStr)
    /\ pubs' = <<>>
    /\ tasks' = <<>>
    /\ routed' = NoRouted
    /\ UNCHANGED <<norm, poll, srv, seen, order, flushPc, idents, clock, lastRepub, lastRecorded, wh>>

\* a faulty variant: only the lists of the specific topics are emptied
ClearSpecific ==
    /\ Quiescent
    /\ subscribers' = [n \in DOMAIN subscribers |->
                          IF n = "*" THEN subscribers[n] ELSE <<>>]
    /\ tableCall' = TableCall("clear", <<>>, NoneStr, NoneStr)
    /\ pubs' = <<>>
    /\ tasks' = <<>>
    /\ routed' = NoRouted
    /\ UNCHANGED <<norm, poll, srv, seen, order, flushPc, idents, clock, lastRepub, lastRecorded, wh>>

\* EventBus.clear()
Clear ==
    /\ Quiescent
    /\ subscribers' = [n \in DOMAIN subscribers |-> <<>>]
    /\ tableCall' = TableCall("clear", <<>>, NoneStr, NoneStr)
    /\ pubs' = <<>>
    /\ tasks' = <<>>
    /\ routed' = NoRouted
    /\ UNCHANGED <<norm, poll, srv, seen, order, flushPc, idents, clock, lastRepub, lastRecorded, wh>>

\* ----------------------------------------------------------- Polling driver
Max(a, b) == IF a >= b THEN a ELSE b
Min(a, b) == IF a <= b THEN a ELSE b

\* a faulty variant: the offset follows the update handled last
PollOffsetLast(offset, update_id) ==
    IF update_id # None THEN update_id + 1 ELSE offset

\* lines 343-344: if isinstance(update_id, int):
\*                    offset = max(offset or 0, update_id + 1)
PollOffset(offset, update_id) ==
    IF update_id # None
    THEN Max(IF offset = None THEN 0 ELSE offset, update_id + 1)
    ELSE offset

\* a faulty variant: the backoff is the idle delay, whatever its length
BackoffUncapped(idle_delay) == idle_delay

\* line 337: min(idle_delay, 5.0)
Backoff(idle_delay) == Min(idle_delay, 5)

\* the call api.get_updates(offset=offset, ...) is made
GetUpdates(q) ==
    [q EXCEPT !.pc = "fetching", !.fetch = "pending",
              !.calls = Append(@, [offset |-> q.offset, highest |-> q.highest])]

\* The loop over the updates of a batch, from the one in hand up to the
\* next suspension point: the await of a publish that gathers, or the next
\* get_updates.
RECURSIVE PollBatch(_, _, _, _)
\* lines 340-350 for one update, n the outcome of normalize_update for it: an
\* exception of normalize_update leaves run_polling
PollUpdate(q, ps, ts, now, n) ==
    LET next == [q EXCEPT !.offset = PollOffset(@, DictGet(n.payload, "update_id")),
                          !.batch = Tail(@)]
        r == DoPublish(<<>>, <<>>, 0,
                       [name |-> "tg.update", payload |-> n.payload,
                        metadata |-> [transport |-> "polling"]])
    IN  IF n.raised # NoneStr
        THEN [poll |-> [q EXCEPT !.pc = "failed", !.raised = n.raised],
              pubs |-> ps, tasks |-> ts]
        ELSE IF r.suspended
        THEN [poll |-> [next EXCEPT !.pc = "publishing"],
              pubs |-> r.pubs, tasks |-> r.tasks]
        ELSE PollBatch(next, r.pubs, r.tasks, now)

PollBatch(q, ps, ts, now) ==
    IF q.batch = <<>> THEN [poll |-> GetUpdates(q), pubs |-> ps, tasks |-> ts]
    ELSE PollUpdate(q, ps, ts, now, Normalize(Head(q.batch), now))

\* the update_id of each update of a batch, None where it has none
IdsOf(updates) ==
    [i \in 1..Len(updates) |->
        IF IsMapping(updates[i]) THEN DictGet(updates[i], "update_id") ELSE None]
\* the highest integer among highest and the identifiers ids
RECURSIVE Highest(_, _)
Highest(highest, ids) ==
    IF ids = <<>> THEN highest
    ELSE Highest(IF Head(ids) = None THEN highest
                 ELSE IF highest = None THEN Head(ids)
                 ELSE Max(highest, Head(ids)),
                 Tail(ids))

\* run_polling(bus, api, idle_delay=idle_delay), up to its first get_updates
RunPolling(idle_delay) ==
    /\ poll.pc = "idle"
    /\ Quiescent
    /\ poll' = GetUpdates(Polling("fetching", idle_delay))
    /\ UNCHANGED <<subscribers, pubs, tasks, seen, order, flushPc, idents, clock,
                   lastRepub, lastRecorded, tableCall, wh, routed, norm, srv>>

\* get_updates returns a list of updates: with none, the idle delay; else
\* the loop over the batch
GetUpdatesReturns(updates, now) ==
    /\ poll.pc = "fetching"
    /\ Len(poll.calls) < MaxCalls
    /\ LET fetched == [poll EXCEPT !.highest = Highest(@, IdsOf(updates)),
                                   !.ids = @ \o IdsOf(updates),
                                   !.fetch = "returned",
                                   !.batch = updates]
       IN  IF updates = <<>>
           THEN /\ poll' = [fetched EXCEPT !.pc = "idle_delay",
                                           !.wait = poll.idle_delay]
                /\ UNCHANGED <<pubs, tasks>>
           ELSE \E r \in {PollBatch(fetched, pubs, tasks, now)} :
                   poll' = r.poll /\ pubs' = r.pubs /\ tasks' = r.tasks
    /\ UNCHANGED <<subscribers, seen, order, flushPc, idents, clock, lastRepub,
                   lastRecorded, tableCall, wh, routed, norm, srv>>

\* get_updates raises an Exception: logged, then the backoff
GetUpdatesFails ==
    /\ poll.pc = "fetching"
    /\ Len(poll.calls) < MaxCalls
    /\ poll' = [poll EXCEPT !.pc = "backoff", !.fetch = "failed",
                            !.wait = Backoff(poll.idle_delay)]
    /\ UNCHANGED <<subscribers, pubs, tasks, seen, order, flushPc, idents, clock,
                   lastRepub, lastRecorded, tableCall, wh, routed, norm, srv>>

\* asyncio.sleep returns, after the idle delay or the backoff: the loop
\* calls get_updates again
SleepDone ==
    /\ poll.pc \in {"idle_delay", "backoff"}
    /\ poll' = GetUpdates(poll)
    /\ UNCHANGED <<subscribers, pubs, tasks, seen, order, flushPc, idents, clock,
                   lastRepub, lastRecorded, tableCall, wh, routed, norm, srv>>

\* The task of run_polling is cancelled: CancelledError is raised at the
\* suspension point it is in, logged and raised again (lines 352-354); a
\* gather that is cancelled cancels the tasks it waits for.
CancelPolling ==
    /\ poll.pc \in {"fetching", "publishing", "idle_delay", "backoff"}
    /\ poll' = [poll EXCEPT !.pc = "cancelled", !.raised = "CancelledError",
                            !.at = poll.pc]
    /\ pubs' = [p \in DOMAIN pubs |->
                  IF pubs[p].state = "gather"
                  THEN [pubs[p] EXCEPT !.state = "cancelled"] ELSE pubs[p]]
    /\ tasks' = [t \in DOMAIN tasks |->
                  IF Finished(tasks[t]) THEN tasks[t]
                  ELSE [tasks[t] EXCEPT !.state = "cancelled"]]
    /\ UNCHANGED <<subscribers, seen, order, flushPc, idents, clock, lastRepub,
                   lastRecorded, tableCall, wh, routed, norm, srv>>

\* ---------------------------------------------------------- Webhook runner
\* a faulty variant: stop is called in the handler of CancelledError, there
\* is no finally
LeaveServingNoFinally(q, pending) ==
    IF pending = "CancelledError"
    THEN [q EXCEPT !.pc = "stopping", !.pending = pending, !.stops = @ + 1]
    ELSE [q EXCEPT !.pc = "ended", !.pending = NoneStr, !.raised = pending]

\* run_webhook once serve_forever has ended, by the exception pending or by
\* a return (NoneStr): lines 510-514, the finally calls server.stop(), which
\* closes the server (it is not None) and awaits wait_closed
LeaveServing(q, pending) ==
    [q EXCEPT !.pc = "stopping", !.pending = pending, !.stops = @ + 1]

\* run_webhook(host, port, bus, secret=...), up to the await of start_server
RunWebhook ==
    /\ srv.pc = "idle"
    /\ srv' = Serving("starting", "none")
    /\ UNCHANGED <<subscribers, pubs, tasks, seen, order, flushPc, idents, clock,
                   lastRepub, lastRecorded, tableCall, wh, routed, norm, poll>>

\* start_server returns: the server listens, run_webhook awaits
\* serve_forever
StartReturns ==
    /\ srv.pc = "starting"
    /\ srv' = [srv EXCEPT !.pc = "serving", !.server = "listening"]
    /\ UNCHANGED <<subscribers, pubs, tasks, seen, order, flushPc, idents, clock,
                   lastRepub, lastRecorded, tableCall, wh, routed, norm, poll>>

\* start_server raises (the port is taken): run_webhook raises, before its
\* try
StartFails ==
    /\ srv.pc = "starting"
    /\ srv' = [srv EXCEPT !.pc = "ended", !.raised = "OSError"]
    /\ UNCHANGED <<subscribers, pubs, tasks, seen, order, flushPc, idents, clock,
                   lastRepub, lastRecorded, tableCall, wh, routed, norm, poll>>

\* Server.serve_forever ends with an error or returns: the exit of
\* async with closes the server and awaits wait_closed
ServeEnds(error) ==
    /\ srv.pc = "serving"
    /\ srv' = [srv EXCEPT !.pc = "leaving", !.server = "closed", !.pending = error,
                          !.how = IF error = NoneStr THEN "returned" ELSE "error"]
    /\ UNCHANGED <<subscribers, pubs, tasks, seen, order, flushPc, idents, clock,
                   lastRepub, lastRecorded, tableCall, wh, routed, norm, poll>>

\* wait_closed returns in the exit of async with: serve_forever has ended
LeaveDone ==
    /\ srv.pc = "leaving"
    /\ srv' = LeaveServing(srv, srv.pending)
    /\ UNCHANGED <<subscribers, pubs, tasks, seen, order, flushPc, idents, clock,
                   lastRepub, lastRecorded, tableCall, wh, routed, norm, poll>>

\* wait_closed returns in stop: self._server = None, and the finally ends
\* with the exception in flight or the return
StopDone ==
    /\ srv.pc = "stopping"
    /\ srv' = [srv EXCEPT !.pc = "ended", !.server = "none", !.pending = NoneStr,
                          !.raised = srv.pending]
    /\ UNCHANGED <<subscribers, pubs, tasks, seen, order, flushPc, idents, clock,
                   lastRepub, lastRecorded, tableCall, wh, routed, norm, poll>>

\* The task of run_webhook is cancelled, CancelledError is raised at the
\* suspension point it is in: in start, before the try; in serve_forever,
\* through the exit of async with; in that exit, on to the finally; in
\* stop, out of the finally.
CancelWebhook ==
    /\ srv.pc \in {"starting", "serving", "leaving", "stopping"}
    /\ srv' =
         CASE srv.pc = "starting" ->
                [srv EXCEPT !.pc = "ended", !.raised = "CancelledError"]
           [] srv.pc = "serving" ->
                [srv EXCEPT !.pc = "leaving", !.server = "closed",
                            !.pending = "CancelledError", !.how = "cancelled"]
           [] srv.pc = "leaving" -> LeaveServing(srv, "CancelledError")
           [] srv.pc = "stopping" ->
                [srv EXCEPT !.pc = "ended", !.pending = NoneStr,
                            !.raised = "CancelledError"]
    /\ UNCHANGED <<subscribers, pubs, tasks, seen, order, flushPc, idents, clock,
                   lastRepub, lastRecorded, tableCall, wh, routed, norm, poll>>

\* ------------------------------------------------------------------ actions
\* await bus.publish(...) by a caller outside the bus, up to the gather
Publish(event) ==
    /\ Quiescent
    /\ LET r == DoPublish(<<>>, <<>>, 0, event)
       IN  pubs' = r.pubs /\ tasks' = r.tasks
    /\ routed' = NoRouted
    /\ UNCHANGED <<norm, poll, srv, subscribers, seen, order, flushPc, idents, clock, lastRepub, lastRecorded, tableCall, wh>>

\* await bus.publish(...) by a second caller outside the bus (another
\* task: the polling driver, a connection of the webhook listener) while a
\* first one awaits its gather
PublishConcurrently(event) ==
    /\ ~Quiescent
    /\ Cardinality({p \in 1..Len(pubs) : pubs[p].caller = 0}) = 1
    /\ LET r == DoPublish(pubs, tasks, 0, event)
       IN  pubs' = r.pubs /\ tasks' = r.tasks
    /\ UNCHANGED <<subscribers, seen, order, flushPc, idents, clock, lastRepub,
                   lastRecorded, tableCall, wh, routed, norm, poll, srv>>

\* a generic asynchronous handler starts and suspends in its own await
StartHandler(t) ==
    /\ IsNext(t)
    /\ tasks[t].handler \in AsyncH \cup SinkH
    /\ tasks' = [tasks EXCEPT ![t].state = "running"]
    /\ UNCHANGED <<norm, poll, srv, subscribers, pubs, seen, order, flushPc, idents, clock, lastRepub, lastRecorded, tableCall, wh, routed>>

\* ... and finishes, with or without an exception
FinishHandler(t) ==
    /\ t \in 1..Len(tasks)
    /\ tasks[t].state = "running"
    /\ tasks' = [tasks EXCEPT ![t].state =
                    IF RaisesInTask(tasks[t].handler) THEN "failed" ELSE "done"]
    /\ UNCHANGED <<norm, poll, srv, subscribers, pubs, seen, order, flushPc, idents, clock, lastRepub, lastRecorded, tableCall, wh, routed>>

\* the gather of publish call p completes: publish returns to its caller,
\* and a handler that awaited it returns too (Dedup, Router: the publish is
\* their last statement); run_polling goes on with the batch
GatherDone(p) ==
    /\ p \in 1..Len(pubs)
    /\ pubs[p].state = "gather"
    /\ GatherComplete(tasks, p)
    /\ LET returned == [pubs EXCEPT ![p].state = "returned"]
       IN  IF pubs[p].caller = 0 /\ poll.pc = "publishing"
           THEN \E r \in {PollBatch(poll, returned, tasks, clock)} :
                   poll' = r.poll /\ pubs' = r.pubs /\ tasks' = r.tasks
           ELSE /\ poll' = poll
                /\ pubs' = returned
                /\ tasks' = IF pubs[p].caller = 0 THEN tasks
                            ELSE [tasks EXCEPT ![pubs[p].caller].state = "done"]
    /\ wh' = IF pubs[p].caller = 0 THEN AfterAwait(wh) ELSE wh
    /\ UNCHANGED <<norm, srv, subscribers, seen, order, flushPc, idents, clock, lastRepub, lastRecorded, tableCall, routed>>

\* Dedup.handle_update, from its call to its await of publish
DedupHandleUpdate(t, now) ==
    /\ IsNext(t)
    /\ tasks[t].handler = DedupH
    /\ LET event == EventOf(t)
           d == DedupDecide(seen, order, event, now)
           update_id == DictGet(event.payload, "update_id")
           r == DoPublish(pubs, tasks, t,
                          [event EXCEPT !.metadata = Annotate(event.metadata)])
       IN  /\ seen' = d.seen
           /\ order' = d.order
           /\ lastRecorded' = IF d.recorded THEN DedupTimestamp(event.payload, now)
                              ELSE lastRecorded
           /\ lastRepub' = IF d.recorded
                           THEN DictSet(lastRepub, update_id,
                                        DedupTimestamp(event.payload, now))
                           ELSE lastRepub
           /\ IF d.republish
              THEN /\ pubs' = r.pubs
                   /\ tasks' = [r.tasks EXCEPT ![t].state = AfterPublish(r.suspended)]
              ELSE /\ pubs' = pubs
                   /\ tasks' = [tasks EXCEPT ![t].state = "done"]
    /\ UNCHANGED <<norm, poll, srv, subscribers, flushPc, idents, clock, tableCall, wh, routed>>

\* Dedup.flush: asyncio.sleep(0), then both clears
FlushStart ==
    /\ flushPc = "idle"
    /\ flushPc' = "sleeping"
    /\ UNCHANGED <<norm, poll, srv, subscribers, pubs, tasks, seen, order, idents, clock, lastRepub, lastRecorded, tableCall, wh, routed>>

\* a faulty variant: only the mapping is cleared
FlushFinishMappingOnly ==
    /\ flushPc = "sleeping"
    /\ flushPc' = "idle"
    /\ seen' = EmptyDict
    /\ lastRepub' = EmptyDict
    /\ lastRecorded' = None
    /\ UNCHANGED <<norm, poll, srv, subscribers, pubs, tasks, order, idents, clock, tableCall, wh, routed>>

\* ... the sleep returns: self._seen.clear(); self._order.clear(), with no
\* await between them
FlushFinish ==
    /\ flushPc = "sleeping"
    /\ flushPc' = "idle"
    /\ seen' = EmptyDict
    /\ order' = <<>>
    /\ lastRepub' = EmptyDict
    /\ lastRecorded' = None
    /\ UNCHANGED <<norm, poll, srv, subscribers, pubs, tasks, idents, clock, tableCall, wh, routed>>

\* Router.handle_update, from its call to its await of publish, its return
\* or its exception
RouterHandleUpdate(t, now) ==
    /\ IsNext(t)
    /\ tasks[t].handler = RouterH
    /\ \E d \in {RouterDecide(EventOf(t), now)} :
       LET r == DoPublish(pubs, tasks, t,
                          [name |-> d.topic, payload |-> d.payload,
                           metadata |-> EmptyDict])
       IN  /\ idents' = IF d.ident
                        THEN idents \cup {DictGet(EventOf(t).payload, "chat_id")}
                        ELSE idents
           /\ routed' = IF d.routed.reached THEN d.routed ELSE routed
           /\ IF d.topic # NoneStr
              THEN /\ pubs' = r.pubs
                   /\ tasks' = [r.tasks EXCEPT ![t].state = AfterPublish(r.suspended)]
              ELSE /\ pubs' = pubs
                   /\ tasks' = [tasks EXCEPT ![t].state =
                                   IF d.raised # NoneStr THEN "failed" ELSE "done"]
    /\ UNCHANGED <<norm, poll, srv, subscribers, seen, order, flushPc, clock, lastRepub, lastRecorded, tableCall, wh>>

\* WebhookServer.process_request(method, headers, body), from its call to
\* its return, its exception or its await of publish
ProcessRequest(method, headers, body, now) ==
    /\ Quiescent
    /\ wh.pc # "publishing"
    /\ LET d == ProcessDecide(method, headers, body, now)
           r == DoPublish(<<>>, <<>>, 0,
                          [name |-> "tg.update", payload |-> d.payload,
                           metadata |-> [transport |-> "webhook"]])
           call(pc) ==
               Request(pc, method, headers, body, d.status, d.response, d.raised)
       IN  IF d.publish
           THEN /\ pubs' = r.pubs
                /\ tasks' = r.tasks
                /\ wh' = IF r.suspended THEN call("publishing")
                         ELSE AfterAwait(call("publishing"))
           ELSE /\ pubs' = <<>>
                /\ tasks' = <<>>
                /\ wh' = IF d.raised # NoneStr THEN call("raised")
                         ELSE call("returned")
    /\ routed' = NoRouted
    /\ UNCHANGED <<norm, poll, srv, subscribers, seen, order, flushPc, idents, clock, lastRepub,
                   lastRecorded, tableCall>>

\* normalize_update(update), called at time now
NormalizeCall(update, now) ==
    /\ norm.times = 0
    /\ norm' = Normalized(1, update, now, Normalize(update, now))
    /\ UNCHANGED <<subscribers, pubs, tasks, seen, order, flushPc, idents, clock,
                   lastRepub, lastRecorded, tableCall, wh, routed, poll, srv>>

\* normalize_update(payload["raw"]), payload the result of the call before
Renormalize(now) ==
    /\ norm.times = 1
    /\ norm.raised = NoneStr
    /\ norm' = Normalized(2, norm.payload["raw"], now,
                          Normalize(norm.payload["raw"], now))
    /\ UNCHANGED <<subscribers, pubs, tasks, seen, order, flushPc, idents, clock,
                   lastRepub, lastRecorded, tableCall, wh, routed, poll, srv>>

\* time passes
Tick ==
    /\ clock < MaxTs
    /\ clock' = clock + 1
    /\ UNCHANGED <<norm, poll, srv, subscribers, pubs, tasks, seen, order, flushPc, idents,
                   lastRepub, lastRecorded, tableCall, wh, routed>>

\* ---------------------------------------------------------- specifications
\* The wiring of bot/__main__.py: Dedup(bus) and Router(bus, storage)
\* subscribe to tg.update in this order; one agent per domain topic.
Wiring ==
    [n \in {"tg.update", "checkin.save", "export.request", "delete.request"} |->
        CASE n = "tg.update" -> <<DedupH, RouterH>>
          [] n = "checkin.save" -> <<"CheckinWriter.handle">>
          [] n = "export.request" -> <<"Export.handle">>
          [] n = "delete.request" -> <<"Delete.handle">>]

UpdatePayload(update_id, ts, chat_id, text) ==
    [update_id |-> update_id, ts |-> ts, chat_id |-> chat_id, text |-> text,
     callback_data |-> NoneStr, mood |-> NoMood, note |-> NoneStr]

\* metadata of a published update: none, the transport, the annotation
Metas == {EmptyDict, [transport |-> "webhook"], [dedup_passed |-> TRUE],
          [dedup_passed |-> FALSE]}

Update(payload, metadata) ==
    [name |-> "tg.update", payload |-> payload, metadata |-> metadata]

\* the updates delivered to the pipeline: every route of the Router
Updates ==
    {Update(UpdatePayload(i, ts, c, x), m) :
        i \in {None, 1}, ts \in {0, MaxTs, None}, c \in {None} \cup ChatIds,
        x \in {"/export", "/delete", "/checkin good", "/checkin", "hello"},
        m \in {EmptyDict, [dedup_passed |-> TRUE]}}

\* the updates delivered to Dedup: normalized updates (their ts is a
\* datetime) of every identifier, timestamp and metadata, with no chat id
\* (the Router ignores them)
DedupUpdates ==
    {Update(UpdatePayload(i, ts, None, "hello"), m) :
        i \in Ids \cup {None}, ts \in Ts, m \in Metas}

InitCache ==
    /\ seen = EmptyDict
    /\ order = <<>>
    /\ flushPc = "idle"
    /\ lastRepub = EmptyDict
    /\ lastRecorded = None

Init ==
    /\ subscribers = Wiring
    /\ pubs = <<>>
    /\ tasks = <<>>
    /\ idents = {}
    /\ clock = 0
    /\ tableCall = NoTableCall
    /\ wh = NoRequest
    /\ routed = NoRouted
    /\ norm = NoNormalize
    /\ poll = NoPolling
    /\ srv = NoServing
    /\ InitCache

Next ==
    \/ \E e \in Updates : Len(order) < MaxOrder /\ Publish(e)
    \/ \E t \in 1..Len(tasks) : DedupHandleUpdate(t, clock)
    \/ \E t \in 1..Len(tasks) : RouterHandleUpdate(t, clock)
    \/ \E t \in 1..Len(tasks) : StartHandler(t)
    \/ \E t \in 1..Len(tasks) : FinishHandler(t)
    \/ \E p \in 1..Len(pubs) : GatherDone(p)
    \/ Tick

Spec == Init /\ [][Next]_vars

\* Dedup under every sequence of normalized updates and flushes
NextDedup ==
    \/ \E e \in DedupUpdates : Len(order) < MaxOrder /\ Publish(e)
    \/ \E t \in 1..Len(tasks) : DedupHandleUpdate(t, clock)
    \/ \E t \in 1..Len(tasks) : RouterHandleUpdate(t, clock)
    \/ \E p \in 1..Len(pubs) : GatherDone(p)
    \/ FlushStart
    \/ FlushFinish

SpecDedup == Init /\ [][NextDedup]_vars

\* The Router under annotated updates of every text, callback data and mood
\* field, published on the bus as the tests of the Router build them.
RouterTexts ==
    {NoneStr, "", "/export", " /Export ", "/export mood", "/delete", "/start",
     "/checkin", "/checkin good", "/checkin  Great ", "/checkin 1", "/checkin 7",
     "/checkin x", " /checkin good", "good", " Good ", "my mood", "feeling",
     "<emotion>", "hello"}
RouterCallbacks ==
    {NoneStr, "mood:", "mood:1", "mood:+1", "mood:-1", "mood:<U+2212>1", "mood:0",
     "mood:7", "mood:x", " mood: 1 ", "MOOD:1", "/delete", "hello"}
RouterMoods ==
    {NoMood, IntMood(0 - 1), IntMood(0), IntMood(1), IntMood(7), StrMood("1"),
     StrMood("good"), StrMood("x")}
RouterPayload(chat_id, text, callback_data, mood) ==
    [update_id |-> None, ts |-> None, chat_id |-> chat_id, text |-> text,
     callback_data |-> callback_data, mood |-> mood, note |-> NoneStr]
\* every text with every mood field; every callback with the texts and mood
\* fields that resolve or not; updates without chat id; and check-ins with
\* every kind of ts and note
RouterPayloads ==
    {RouterPayload(c, x, NoneStr, m) :
        c \in ChatIds, x \in RouterTexts, m \in RouterMoods} \cup
    {RouterPayload(c, x, cb, m) :
        c \in ChatIds, x \in {NoneStr, "/export", "good", "/checkin good"},
        cb \in RouterCallbacks, m \in {NoMood, IntMood(1), StrMood("x")}} \cup
    {RouterPayload(None, x, cb, m) :
        x \in {"/export", "/checkin good"}, cb \in {NoneStr, "mood:1", "/delete"},
        m \in {NoMood, IntMood(1)}} \cup
    {[RouterPayload(c, x, NoneStr, NoMood) EXCEPT !.ts = ts, !.note = n] :
        c \in ChatIds, x \in {"/checkin good", "/checkin x", "/export"},
        ts \in {None, 1, IsoString(2), NotIsoString, NumberTs},
        n \in {NoneStr, "", "slept well"}}
RouterUpdates == {Update(payload, [dedup_passed |-> TRUE]) : payload \in RouterPayloads}

NextRouter ==
    \/ \E e \in RouterUpdates : Publish(e)
    \/ \E t \in 1..Len(tasks) : DedupHandleUpdate(t, clock)
    \/ \E t \in 1..Len(tasks) : RouterHandleUpdate(t, clock)
    \/ \E t \in 1..Len(tasks) : StartHandler(t)
    \/ \E t \in 1..Len(tasks) : FinishHandler(t)
    \/ \E p \in 1..Len(pubs) : GatherDone(p)

SpecRouter == Init /\ [][NextRouter]_vars

\* The webhook listener in front of the pipeline: requests of every method,
\* secret header and body, one at a time.
Methods == {"POST", "GET"}
Headers ==
    {EmptyDict} \cup {DictSet(EmptyDict, SecretHeader, v) : v \in {"", Secret, "invalid"}}

NextWebhook ==
    \/ \E m \in Methods, h \in Headers, b \in Bodies :
          Len(order) < MaxOrder /\ ProcessRequest(m, h, b, clock)
    \/ \E t \in 1..Len(tasks) : DedupHandleUpdate(t, clock)
    \/ \E t \in 1..Len(tasks) : RouterHandleUpdate(t, clock)
    \/ \E t \in 1..Len(tasks) : StartHandler(t)
    \/ \E t \in 1..Len(tasks) : FinishHandler(t)
    \/ \E p \in 1..Len(pubs) : GatherDone(p)

SpecWebhook == Init /\ [][NextWebhook]_vars

\* normalize_update under raw updates of every shape: with or without
\* message, edited_message and callback_query, each field present or not,
\* dates of every kind; and applied again to its own raw field.
Opt(key, values) == {EmptyDict} \cup {DictSet(EmptyDict, key, v) : v \in values}
OuterDates == {NumDate(1), BadDate, HugeDate}
OuterMessages ==
    {DictUpdate(DictUpdate(c, m), d) :
        c \in Opt("chat", {[id |-> 5]}), m \in Opt("message_id", {10}),
        d \in Opt("date", OuterDates)}
TextMessages ==
    {DictUpdate(DictSet(m, "text", "hello"), d) :
        m \in Opt("chat", {[id |-> 5]}), d \in Opt("date", {NumDate(1), IsoDate(2)})}
EditedMessages == {[chat |-> [id |-> 8], message_id |-> 12, date |-> IsoDate(2)]}
CallbackMessages ==
    {DictUpdate(DictUpdate(c, m), d) :
        c \in Opt("chat", {[id |-> 6], [id |-> None]}),
        m \in Opt("message_id", {11}),
        d \in Opt("date", {IsoDate(2), BadDate})}
Callbacks ==
    {DictUpdate(DictUpdate(x, m), f) :
        x \in Opt("data", {"mood:1"}), m \in Opt("message", CallbackMessages),
        f \in Opt("from", {[id |-> 42]})}
RawUpdates ==
    {DictUpdate(DictSet(m, "update_id", 1), c) :
        m \in Opt("message", OuterMessages), c \in Opt("callback_query", Callbacks)} \cup
    {DictUpdate(DictUpdate(i, m), e) :
        i \in Opt("update_id", {1}), m \in Opt("message", TextMessages),
        e \in Opt("edited_message", EditedMessages)} \cup
    {DictUpdate(e, c) :
        e \in Opt("edited_message", EditedMessages),
        c \in Opt("callback_query", {cb \in Callbacks : "from" \in DOMAIN cb})} \cup
    {JsonArray}

NextNormalize ==
    \/ \E update \in RawUpdates : NormalizeCall(update, clock)
    \/ Renormalize(clock)
    \/ Tick

SpecNormalize == Init /\ [][NextNormalize]_vars

\* run_polling on a bus whose subscribers to tg.update fail when called,
\* fail in their task or succeed, under every batch of at most two updates:
\* identifiers in and out of order, repeated or missing, a value that is
\* not an object, a date that does not fit a datetime; and under failures
\* of get_updates and cancellation.
IdleDelays == {1, 7}
PollMessage(date) == [chat |-> [id |-> 5], text |-> "hello", date |-> date]
PollUpdates ==
    {[update_id |-> i, message |-> PollMessage(NumDate(1))] : i \in 0..2} \cup
    {[message |-> PollMessage(NumDate(1))],
     [update_id |-> 2, message |-> PollMessage(HugeDate)],
     JsonArray}
Batches ==
    {<<>>} \cup {<<u>> : u \in PollUpdates} \cup {<<u, v>> : u, v \in PollUpdates}

InitPolling ==
    /\ subscribers = [n \in {"tg.update"} |-> <<"sync_raises", "async_raises", "async_ok">>]
    /\ pubs = <<>>
    /\ tasks = <<>>
    /\ idents = {}
    /\ clock = 0
    /\ tableCall = NoTableCall
    /\ wh = NoRequest
    /\ routed = NoRouted
    /\ norm = NoNormalize
    /\ poll = NoPolling
    /\ srv = NoServing
    /\ InitCache

NextPolling ==
    \/ \E idle_delay \in IdleDelays : RunPolling(idle_delay)
    \/ \E updates \in Batches : GetUpdatesReturns(updates, clock)
    \/ GetUpdatesFails
    \/ SleepDone
    \/ CancelPolling
    \/ \E t \in 1..Len(tasks) : StartHandler(t)
    \/ \E t \in 1..Len(tasks) : FinishHandler(t)
    \/ \E p \in 1..Len(pubs) : GatherDone(p)

SpecPolling == InitPolling /\ [][NextPolling]_vars

\* run_webhook over the pipeline: the server is started, handles requests
\* while it listens, and serving ends by cancellation, by an error or by a
\* return.
ServeErrors == {NoneStr, "OSError"}
NextServing ==
    \/ RunWebhook
    \/ StartReturns
    \/ StartFails
    \/ \E error \in ServeErrors : ServeEnds(error)
    \/ LeaveDone
    \/ StopDone
    \/ CancelWebhook
    \/ \E m \in Methods, h \in Headers, b \in Bodies :
          /\ srv.server = "listening"
          /\ Len(order) < MaxOrder
          /\ ProcessRequest(m, h, b, clock)
    \/ \E t \in 1..Len(tasks) : DedupHandleUpdate(t, clock)
    \/ \E t \in 1..Len(tasks) : RouterHandleUpdate(t, clock)
    \/ \E t \in 1..Len(tasks) : StartHandler(t)
    \/ \E t \in 1..Len(tasks) : FinishHandler(t)
    \/ \E p \in 1..Len(pubs) : GatherDone(p)

SpecServing == Init /\ [][NextServing]_vars

\* Dedup under updates published one after the other and two at a time, by
\* the polling driver and by the webhook listener
ConcurrentUpdates(transport) ==
    {Update(UpdatePayload(i, ts, None, "hello"), [transport |-> transport]) :
        i \in Ids, ts \in Ts}

NextConcurrent ==
    \/ \E e \in ConcurrentUpdates("polling") : Len(order) < MaxOrder /\ Publish(e)
    \/ \E e \in ConcurrentUpdates("webhook") : PublishConcurrently(e)
    \/ \E t \in 1..Len(tasks) : DedupHandleUpdate(t, clock)
    \/ \E t \in 1..Len(tasks) : RouterHandleUpdate(t, clock)
    \/ \E p \in 1..Len(pubs) : GatherDone(p)

SpecConcurrent == Init /\ [][NextConcurrent]_vars

\* Dedup under flush: updates published one after the other and two at a
\* time, with flush called at any moment, also while an update is in the
\* pipeline
FlushUpdates(transport) ==
    {Update(UpdatePayload(i, ts, None, "hello"), [transport |-> transport]) :
        i \in Ids, ts \in {0, MaxTs}}

NextFlush ==
    \/ \E e \in FlushUpdates("polling") : Len(order) < MaxOrder /\ Publish(e)
    \/ \E e \in FlushUpdates("webhook") : PublishConcurrently(e)
    \/ \E t \in 1..Len(tasks) : DedupHandleUpdate(t, clock)
    \/ \E t \in 1..Len(tasks) : RouterHandleUpdate(t, clock)
    \/ \E p \in 1..Len(pubs) : GatherDone(p)
    \/ FlushStart
    \/ FlushFinish

SpecFlush == Init /\ [][NextFlush]_vars

\* The wired pipeline under unannotated updates, published one at a time,
\* with the event loop running every task that is ready and every gather
\* that is complete.
RunLoop ==
    \/ \E t \in 1..Len(tasks) : DedupHandleUpdate(t, clock)
    \/ \E t \in 1..Len(tasks) : RouterHandleUpdate(t, clock)
    \/ \E t \in 1..Len(tasks) : StartHandler(t)
    \/ \E t \in 1..Len(tasks) : FinishHandler(t)
    \/ \E p \in 1..Len(pubs) : GatherDone(p)

NextPipeline ==
    \/ \E i \in {None, 1}, ts \in {0, MaxTs}, c \in {None} \cup ChatIds,
          x \in {"/export", "good", "hello"} :
          /\ Len(order) < MaxOrder
          /\ Publish(Update(UpdatePayload(i, ts, c, x), EmptyDict))
    \/ RunLoop

SpecPipeline == Init /\ [][NextPipeline]_vars /\ WF_vars(RunLoop)

\* The bus alone, with handlers of every kind subscribed by its callers.
BusTopics == {"test.event", "other.event", "*"}
BusHandlers == SyncH \cup AsyncH
NameLists ==
    {<<>>} \cup {<<n>> : n \in BusTopics} \cup {<<n, m>> : n, m \in BusTopics}
Entries == Len(Lookup("test.event")) + Len(Lookup("other.event")) + Len(Lookup("*"))
BusEvent(name) == [name |-> name, payload |-> EmptyDict, metadata |-> EmptyDict]

InitBus ==
    /\ subscribers = [n \in BusTopics |-> <<>>]
    /\ pubs = <<>>
    /\ tasks = <<>>
    /\ idents = {}
    /\ clock = 0
    /\ tableCall = NoTableCall
    /\ wh = NoRequest
    /\ routed = NoRouted
    /\ norm = NoNormalize
    /\ poll = NoPolling
    /\ srv = NoServing
    /\ InitCache

NextBus ==
    \/ \E names \in NameLists, h \in BusHandlers :
          Entries + Len(names) <= MaxSubs /\ Subscribe(names, h)
    \/ Clear
    \/ \E n \in BusTopics : Publish(BusEvent(n))
    \/ \E t \in 1..Len(tasks) : StartHandler(t)
    \/ \E t \in 1..Len(tasks) : FinishHandler(t)
    \/ \E p \in 1..Len(pubs) : GatherDone(p)

SpecBus == InitBus /\ [][NextBus]_vars

\* -------------------------------------------------------------- properties
\* Task t is a call of handler h that runs in this step.
Runs(t, h) ==
    /\ IsNext(t)
    /\ tasks[t].handler = h
    /\ tasks'[t].state # "ready"
\* This step of a handler publishes.
Publishes == Len(pubs') = Len(pubs) + 1
\* Task t holds an unannotated update that carries identifier and timestamp.
Identified(t) ==
    /\ ~DedupPassed(EventOf(t).metadata)
    /\ DictGet(EventOf(t).payload, "update_id") # None
    /\ DictGet(EventOf(t).payload, "ts") \in Ts
IdOf(t) == DictGet(EventOf(t).payload, "update_id")
TsOf(t) == DictGet(EventOf(t).payload, "ts")
Abs(x) == IF x < 0 THEN 0 - x ELSE x

\* C1: with no flush in between, an update whose identifier Dedup republished
\* with timestamp t1 and which arrives again with a timestamp t2,
\* 0 <= t2 - t1 < window, is suppressed: Dedup does not republish it.
C1_SuppressedWithinWindow ==
    [][\A t \in 1..Len(tasks) :
          ( /\ Runs(t, DedupH)
            /\ Identified(t)
            /\ IdOf(t) \in DOMAIN lastRepub
            /\ 0 <= TsOf(t) - lastRepub[IdOf(t)]
            /\ TsOf(t) - lastRepub[IdOf(t)] < Window )
          => ~Publishes]_vars

\* C2: an identifier published twice with timestamps more than the window
\* apart, in either arrival order, is republished both times.
C2_RepublishedOutsideWindow ==
    [][\A t \in 1..Len(tasks) :
          ( /\ Runs(t, DedupH)
            /\ Identified(t)
            /\ IdOf(t) \in DOMAIN lastRepub
            /\ Abs(TsOf(t) - lastRepub[IdOf(t)]) > Window )
          => Publishes]_vars

\* Task t of handler h has run on an unannotated update without identifier.
Unidentified(t) ==
    /\ ~DedupPassed(EventOf(t).metadata)
    /\ DictGet(EventOf(t).payload, "update_id") = None
\* the publish calls made by task t
PubsBy(t) == {p \in 1..Len(pubs) : pubs[p].caller = t}
\* event e is event f with dedup_passed = True added to its metadata
IsAnnotated(e, f) ==
    /\ e.name = f.name
    /\ e.payload = f.payload
    /\ DOMAIN e.metadata = DOMAIN f.metadata \cup {"dedup_passed"}
    /\ e.metadata["dedup_passed"] = TRUE
    /\ \A k \in DOMAIN f.metadata \ {"dedup_passed"} : e.metadata[k] = f.metadata[k]

\* C3: an unannotated tg.update without update identifier is republished by
\* Dedup exactly once, on the same topic, with dedup_passed = True added to
\* its metadata, whatever the cache holds; the cache is not modified.
C3_NoIdRepublishedOnce ==
    /\ [][\A t \in 1..Len(tasks) :
            (Runs(t, DedupH) /\ Unidentified(t)) =>
                /\ Publishes
                /\ pubs'[Len(pubs')].caller = t
                /\ IsAnnotated(pubs'[Len(pubs')].event, EventOf(t))
                /\ seen' = seen
                /\ order' = order]_vars
    /\ [](\A t \in 1..Len(tasks) :
            (tasks[t].handler = DedupH /\ Unidentified(t)) =>
                Cardinality(PubsBy(t)) = IF tasks[t].state = "ready" THEN 0 ELSE 1)

\* C3 witness: with a non-empty cache, an update without identifier has been
\* republished by Dedup.
C3_Witness ==
    /\ order # <<>>
    /\ \E t \in 1..Len(tasks) :
          /\ tasks[t].handler = DedupH
          /\ Unidentified(t)
          /\ tasks[t].state = "done"
          /\ PubsBy(t) # {}

\* C4: once an update with timestamp t has been recorded, neither the
\* mapping nor the FIFO holds an entry more than the window older than t.
C4_NothingOlderThanWindow ==
    lastRecorded # None =>
        /\ \A k \in DOMAIN seen : lastRecorded - seen[k] <= Window
        /\ \A i \in 1..Len(order) : lastRecorded - order[i][2] <= Window

\* C5: every key of the mapping has exactly one entry in the FIFO.
C5_OneEntryPerKey ==
    \A k \in DOMAIN seen :
        Cardinality({i \in 1..Len(order) : order[i][1] = k}) = 1

DomainTopics == {"checkin.save", "export.request", "delete.request"}
DomainPubs == {p \in 1..Len(pubs) : pubs[p].event.name \in DomainTopics}
RouterTasks == {t \in 1..Len(tasks) : tasks[t].handler = RouterH}

\* C6: the Router emits a domain event only for a tg.update that carries the
\* dedup_passed annotation, so one published tg.update results in at most one
\* domain event although Router.handle_update runs for the raw event and for
\* Dedup's republish.
C6_OneDomainEventPerUpdate ==
    /\ Cardinality(DomainPubs) <= 1
    /\ \A p \in DomainPubs :
          /\ pubs[p].caller \in RouterTasks
          /\ DedupPassed(EventOf(pubs[p].caller).metadata)

\* C6 witness: a raw update was published, the Router has run for it and for
\* the republish, and one domain event was emitted.
C6_Witness ==
    /\ pubs # <<>>
    /\ ~DedupPassed(pubs[1].event.metadata)
    /\ Cardinality(RouterTasks) = 2
    /\ \A t \in RouterTasks : tasks[t].state = "done"
    /\ Cardinality(DomainPubs) = 1

Range(q) == {q[i] : i \in 1..Len(q)}
Count(q, h) == Cardinality({i \in 1..Len(q) : q[i] = h})
Registered(name) == Range(Lookup(name)) \cup Range(Lookup("*"))

\* C7: in one publish a handler that fails, raising when called or through
\* its awaitable, keeps no other subscribed handler from being invoked, and
\* publish does not propagate the failure.
C7_FailureIsolated ==
    \A p \in 1..Len(pubs) :
        /\ pubs[p].state # "raised"
        /\ \A h \in Registered(pubs[p].event.name) : h \in Range(pubs[p].invoked)
        /\ Cardinality(TasksOf(tasks, p)) =
              Cardinality({i \in 1..Len(pubs[p].invoked) :
                              IsAwaitable(pubs[p].invoked[i])})

\* C7 witness: a publish has returned although a handler raised when called
\* and an awaitable failed, with handlers invoked after each of them.
C7_Witness ==
    \E p \in 1..Len(pubs) :
        /\ pubs[p].state = "returned"
        /\ \E i, j \in 1..Len(pubs[p].invoked) :
              /\ i < j
              /\ pubs[p].invoked[i] = "sync_raises"
              /\ pubs[p].invoked[j] = "async_ok"
        /\ \E t, u \in TasksOf(tasks, p) :
              /\ t < u
              /\ tasks[t].state = "failed"
              /\ tasks[u].state = "done"

\* C8: publish returns only after every awaitable of an invoked handler has
\* finished, with or without an exception.
C8_ReturnsAfterAll ==
    \A p \in 1..Len(pubs) :
        pubs[p].state = "returned" =>
            \A t \in TasksOf(tasks, p) : Finished(tasks[t])

\* C8 witness: a publish with two awaitables, one of them failed, has returned.
C8_Witness ==
    \E p \in 1..Len(pubs) :
        /\ pubs[p].state = "returned"
        /\ Cardinality(TasksOf(tasks, p)) >= 2
        /\ \E t \in TasksOf(tasks, p) : tasks[t].state = "failed"

\* C9: within one publish the handlers are invoked in registration order,
\* those of the specific topic before those of the wildcard topic.
C9_InvocationOrder ==
    /\ [](\A p \in 1..Len(pubs) :
            LET name == pubs[p].event.name
                ns == Len(Lookup(name))
            IN  /\ Len(pubs[p].invoked) = ns + Len(Lookup("*"))
                /\ \A i \in 1..Len(pubs[p].invoked) :
                      pubs[p].invoked[i] =
                          IF i <= ns THEN Lookup(name)[i] ELSE Lookup("*")[i - ns])
    /\ [][\A n \in DOMAIN subscribers :
            Len(subscribers'[n]) >= Len(subscribers[n]) =>
                SubSeq(subscribers'[n], 1, Len(subscribers[n])) = subscribers[n]]_vars

\* C9 witness: a publish invoked two handlers of the specific topic and then
\* one of the wildcard topic.
C9_Witness ==
    \E p \in 1..Len(pubs) :
        /\ pubs[p].event.name = "test.event"
        /\ Len(Lookup("test.event")) = 2
        /\ Lookup("test.event")[1] # Lookup("test.event")[2]
        /\ Len(Lookup("*")) = 1
        /\ Lookup("*")[1] \notin Range(Lookup("test.event"))
        /\ Len(pubs[p].invoked) = 3

\* C10: publish invokes a handler once per matching subscription entry and
\* never deduplicates: the invocations of a handler number its entries in the
\* specific list plus its entries in the wildcard list.
C10_OncePerEntry ==
    \A p \in 1..Len(pubs) : \A h \in BusHandlers :
        Count(pubs[p].invoked, h) =
            Count(Lookup(pubs[p].event.name), h) + Count(Lookup("*"), h)

\* C10 witness: a handler subscribed to the topic and to the wildcard was
\* invoked twice by one publish on the topic.
C10_Witness ==
    \E p \in 1..Len(pubs) : \E h \in BusHandlers :
        /\ pubs[p].event.name = "test.event"
        /\ Count(Lookup("test.event"), h) = 1
        /\ Count(Lookup("*"), h) = 1
        /\ Count(pubs[p].invoked, h) = 2

\* C11: after clear() and until the next subscribe, a publish on any topic
\* invokes no handler and creates no task, whatever the table held before.
C11_ClearedInvokesNone ==
    tableCall.op = "clear" =>
        /\ tasks = <<>>
        /\ \A p \in 1..Len(pubs) :
              pubs[p].invoked = <<>> /\ pubs[p].state = "returned"

\* C11 witness: the table held a handler of the topic and a wildcard handler,
\* clear() was called, and an event was then published on the topic.
C11_Witness ==
    /\ tableCall.op = "clear"
    /\ tableCall.before["test.event"] > 0
    /\ tableCall.before["*"] > 0
    /\ \E p \in 1..Len(pubs) : pubs[p].event.name = "test.event"

\* the call of subscribe that this step makes, if it is one
Subscribes ==
    /\ tableCall'.op = "subscribe"
    /\ tableCall' # tableCall \/ subscribers' # subscribers

\* C12: subscribe with an empty collection of names raises ValueError and
\* leaves the table unchanged; with a non-empty one it raises nothing and
\* appends the handler to the list of each name, once per occurrence.
C12_SubscribeEmptyRaises ==
    [][Subscribes =>
          IF tableCall'.names = <<>>
          THEN /\ tableCall'.raised = "ValueError"
               /\ subscribers' = subscribers
          ELSE /\ tableCall'.raised = NoneStr
               /\ \A n \in DOMAIN subscribers :
                     subscribers'[n] =
                         subscribers[n] \o
                         [i \in 1..Count(tableCall'.names, n) |-> tableCall'.handler]]_vars

\* C12 witness: subscribe with no name raised ValueError on a table that
\* holds subscriptions.
C12_Witness ==
    /\ tableCall.op = "subscribe"
    /\ tableCall.names = <<>>
    /\ tableCall.raised = "ValueError"
    /\ Entries = 2

\* the secret header of the request
Token == DictGetStr(wh.headers, SecretHeader)
\* process_request has returned (status, empty body)
Rejected(status) == wh.pc = "returned" /\ wh.status = status /\ wh.response = ""
\* the publish calls made by process_request
WebhookPubs == {p \in 1..Len(pubs) : pubs[p].caller = 0}

\* C13: process_request checks method, secret, body in this order: a method
\* other than POST gives (405, empty) whatever header and body; a POST whose
\* secret header is missing or differs from the secret gives (403, empty)
\* whatever the body; a POST with the secret and a body that is not JSON gives
\* (400, empty).
C13_ValidationOrder ==
    wh.pc # "idle" =>
        /\ wh.method # "POST" => Rejected(405)
        /\ (wh.method = "POST" /\ Token # Secret) => Rejected(403)
        /\ ( /\ wh.method = "POST"
             /\ Token = Secret
             /\ wh.body.kind \in {"not_utf8", "not_json"} ) => Rejected(400)

\* C14: a request answered 405, 403 or 400 published no event and invoked
\* no handler, whatever its method, headers and body.
C14_RejectedNeverPublished ==
    (wh.pc = "returned" /\ wh.status \in {405, 403, 400}) =>
        pubs = <<>> /\ tasks = <<>>

\* C14 witness: after an accepted update went through the pipeline, a POST
\* with a wrong secret and the body of an update was answered 403.
C14_Witness ==
    /\ order # <<>>
    /\ Rejected(403)
    /\ Token = "invalid"
    /\ wh.body.kind = "object"
    /\ wh.body.update_id # None

\* C15: a POST with the secret and a body that is valid JSON publishes
\* exactly one tg.update whose payload is the normalized body and whose
\* metadata is transport = "webhook", and returns (200, {}).
C15_AcceptedPublishesOnce ==
    ( /\ wh.pc # "idle"
      /\ wh.method = "POST"
      /\ Token = Secret
      /\ wh.body.kind \in {"array", "object"} ) =>
        /\ wh.pc \in {"publishing", "returned"}
        /\ WebhookPubs = {1}
        /\ pubs[1].event.name = "tg.update"
        /\ pubs[1].event.payload = NormalizeUpdate(wh.body, clock).payload
        /\ pubs[1].event.metadata = [transport |-> "webhook"]
        /\ wh.pc = "returned" => wh.status = 200 /\ wh.response = "{}"

\* C16: for a POST with the secret and any body, process_request returns 200
\* having published one event or 400 having published none; it never raises.
C16_NeverRaises ==
    (wh.pc # "idle" /\ wh.method = "POST" /\ Token = Secret) =>
        /\ wh.pc # "raised"
        /\ wh.pc = "returned" =>
              \/ wh.status = 200 /\ WebhookPubs = {1}
              \/ wh.status = 400 /\ pubs = <<>>

\* Task t is a call of the Router, running in this step, on an annotated
\* update that carries a chat id.
Routes(t) ==
    /\ Runs(t, RouterH)
    /\ DedupPassed(EventOf(t).metadata)
    /\ DictGet(EventOf(t).payload, "chat_id") # None
\* The event this step publishes, if it publishes.
Published == pubs'[Len(pubs')].event
\* A call of the Router on an annotated update with a chat id has returned.
Routed1(t) ==
    /\ t \in RouterTasks
    /\ tasks[t].state \in {"awaiting", "done"}
    /\ DedupPassed(EventOf(t).metadata)
    /\ DictGet(EventOf(t).payload, "chat_id") # None

\* the command of a payload by the order of the rules: the first that matches
FirstMatch(payload) ==
    LET callback == payload.callback_data
        examined == Lower(Strip(IF callback # NoneStr THEN Chars(callback)
                                ELSE IF payload.text # NoneStr
                                     THEN Chars(payload.text) ELSE <<>>))
        rules == << <<StartsWith(examined, Chars("/export")), "export">>,
                    <<StartsWith(examined, Chars("/delete")), "delete">>,
                    <<StartsWith(examined, Chars("/start")), "checkin">>,
                    <<StartsWith(examined, Chars("/checkin")), "checkin">>,
                    <<Contains(examined, Chars("mood")), "checkin">>,
                    <<Contains(examined, Chars("feeling")), "checkin">>,
                    <<Contains(examined, Chars("<emotion>")), "checkin">>,
                    <<payload.mood # NoMood, "checkin">>,
                    <<TRUE, NoneStr>> >>
        first == CHOOSE i \in 1..Len(rules) :
                    rules[i][1] /\ \A j \in 1..(i - 1) : ~rules[j][1]
    IN  rules[first][2]

\* C17: the Router classifies by the first rule that matches, in the order
\* prefix /export, prefix /delete, prefix /start or /checkin, a substring
\* mood, feeling or the local word for emotion, a mood field that is not
\* null, else unrecognized and no event; the string examined is
\* callback_data when it is a string, else text, trimmed and lower-cased.
C17_ClassificationOrder ==
    [][\A t \in 1..Len(tasks) :
          Routes(t) =>
              /\ routed'.reached
              /\ routed'.command = FirstMatch(EventOf(t).payload)
              /\ routed'.command = NoneStr => ~Publishes
              /\ routed'.command = "export" =>
                    Publishes /\ Published.name = "export.request"
              /\ routed'.command = "delete" =>
                    Publishes /\ Published.name = "delete.request"
              /\ (routed'.command = "checkin" /\ Publishes) =>
                    Published.name = "checkin.save"]_vars

\* C17 witness: a text that starts with /export and contains mood, in a
\* payload with a mood field, was classified export and export.request was
\* emitted.
C17_Witness ==
    \E t \in 1..Len(tasks) :
        /\ Routed1(t)
        /\ EventOf(t).payload.text = "/export mood"
        /\ EventOf(t).payload.callback_data = NoneStr
        /\ EventOf(t).payload.mood # NoMood
        /\ routed.command = "export"
        /\ PubsBy(t) # {}

\* callback_data has the form mood:<value>
IsMoodForm(payload) ==
    /\ payload.callback_data # NoneStr
    /\ StartsWith(Strip(Chars(payload.callback_data)), Chars("mood:"))
\* the integer <value> parses to, a sign + or - or U+2212 accepted
MoodValue(payload) ==
    LET value == Strip(AfterColon(Strip(Chars(payload.callback_data))))
        sign == IF value # <<>> /\ value[1] \in {"+", "-", "U+2212"}
                THEN value[1] ELSE ""
        digits == IF sign = "" THEN value ELSE Tail(value)
    IN  IF digits = <<>> \/ \E i \in 1..Len(digits) : Digit(digits[i]) = None
        THEN None
        ELSE IF sign \in {"-", "U+2212"} THEN 0 - Decimal(digits, 0)
             ELSE Decimal(digits, 0)
\* This step publishes one checkin.save with the mood, or with None nothing.
EmitsMood(mood) ==
    IF mood \in Moods
    THEN /\ Publishes
         /\ Published.name = "checkin.save"
         /\ Published.payload.mood = mood
    ELSE ~Publishes

\* C18: for an annotated update with a chat id whose callback_data has the
\* form mood:<value>, the value alone decides: an integer of {-1, 0, 1} gives
\* one checkin.save with that mood, anything else gives no event, with no
\* fallback to the mood field or the text.
C18_CallbackValueAlone ==
    [][\A t \in 1..Len(tasks) :
          (Routes(t) /\ IsMoodForm(EventOf(t).payload)) =>
              EmitsMood(MoodValue(EventOf(t).payload))]_vars

\* C19: every checkin.save the Router emits carries a mood of {-1, 0, 1};
\* when the mood is not resolved to one of them, none is emitted.
C19_MoodInRange ==
    /\ [](\A p \in 1..Len(pubs) :
            pubs[p].event.name = "checkin.save" =>
                /\ pubs[p].caller \in RouterTasks
                /\ pubs[p].event.payload.mood \in Moods)
    /\ [][\A t \in 1..Len(tasks) :
            (Routes(t) /\ routed'.command = "checkin"
                       /\ routed'.mood \notin Moods) => ~Publishes]_vars

\* C19 witness: /checkin 7 was classified checkin, its mood 7 was not
\* accepted, and the Router returned without an event.
C19_Witness ==
    \E t \in 1..Len(tasks) :
        /\ Routed1(t)
        /\ EventOf(t).payload.text = "/checkin 7"
        /\ EventOf(t).payload.callback_data = NoneStr
        /\ EventOf(t).payload.mood = NoMood
        /\ routed.command = "checkin"
        /\ tasks[t].state = "done"
        /\ PubsBy(t) = {}

\* the mood of a checkin payload without mood-form callback: the mood field
\* as an integer when there is one; else the second word of a text that
\* starts with /checkin, by the word map and then as an integer; else the
\* trimmed lower-cased text by the word map
FieldOrTextMood(payload) ==
    LET text == IF payload.text # NoneStr THEN Lower(Chars(payload.text)) ELSE <<>>
        words == Split(text)
        word == IF Len(words) >= 2 THEN words[2] ELSE <<>>
    IN  IF payload.mood # NoMood THEN IntOfValue(payload.mood)
        ELSE IF StartsWith(text, Chars("/checkin"))
             THEN (IF MoodWord(word) # None THEN MoodWord(word) ELSE IntOf(word))
             ELSE MoodWord(Strip(text))

\* the mood a resolution ends with: a value of {-1, 0, 1}, else None
Resolved(mood) == IF mood \in Moods THEN mood ELSE None
\* the ts of the payload is no string, or a string in ISO-8601 format
TsAccepted(payload) == CheckinTs(payload, clock).raised = NoneStr

\* C20: for a payload classified checkin whose callback_data is not of the
\* mood form, a mood field is parsed as an integer and a failed parse emits
\* nothing (no fallback to the text); without mood field a text starting
\* with /checkin gives its second word through the word map, else as an
\* integer, and any other text goes through the word map whole; so
\* "/checkin good" gives checkin.save with mood 1.  The mood resolved is the
\* one the Router goes on with; the event follows unless the ts of the
\* update is a string that datetime.fromisoformat rejects.
C20_FieldThenText ==
    [][\A t \in 1..Len(tasks) :
          ( /\ Routes(t)
            /\ routed'.command = "checkin"
            /\ ~IsMoodForm(EventOf(t).payload) ) =>
              /\ routed'.mood = Resolved(FieldOrTextMood(EventOf(t).payload))
              /\ TsAccepted(EventOf(t).payload) =>
                    /\ EmitsMood(FieldOrTextMood(EventOf(t).payload))
                    /\ ( /\ EventOf(t).payload.text = "/checkin good"
                         /\ EventOf(t).payload.mood = NoMood ) => EmitsMood(1)]_vars

\* C20 witness: a mood field that does not parse ended the resolution
\* although the text /checkin good resolves.
C20_Witness ==
    \E t \in 1..Len(tasks) :
        /\ Routed1(t)
        /\ EventOf(t).payload.text = "/checkin good"
        /\ EventOf(t).payload.callback_data = NoneStr
        /\ EventOf(t).payload.mood = StrMood("good")
        /\ routed.command = "checkin"
        /\ tasks[t].state = "done"
        /\ PubsBy(t) = {}

\* Task t is a call of the Router, running in this step, on an annotated
\* update that carries no chat id.
RoutesNoChat(t) ==
    /\ Runs(t, RouterH)
    /\ DedupPassed(EventOf(t).metadata)
    /\ DictGet(EventOf(t).payload, "chat_id") = None

\* C21: an annotated tg.update whose payload has no chat id is ignored by the
\* Router: it emits no event and does not call get_or_create_ident, whatever
\* text, callback data or mood the payload carries; the call returns.
C21_NoChatIgnored ==
    [][\A t \in 1..Len(tasks) :
          RoutesNoChat(t) =>
              /\ ~Publishes
              /\ pubs' = pubs
              /\ idents' = idents
              /\ routed' = routed
              /\ tasks'[t].state = "done"]_vars

\* C21 witness: the Router has returned from an annotated update without chat
\* id whose text is /export, whose callback data is mood:1 and whose mood
\* field is 1, having published nothing.
C21_Witness ==
    \E t \in 1..Len(tasks) :
        /\ t \in RouterTasks
        /\ tasks[t].state = "done"
        /\ DedupPassed(EventOf(t).metadata)
        /\ DictGet(EventOf(t).payload, "chat_id") = None
        /\ EventOf(t).payload.text = "/export"
        /\ EventOf(t).payload.callback_data = "mood:1"
        /\ EventOf(t).payload.mood = IntMood(1)
        /\ PubsBy(t) = {}
        /\ idents = {}

\* the topic of the request a command asks for
RequestTopic(command) ==
    IF command = "export" THEN "export.request" ELSE "delete.request"

\* C22: when the Router classifies an update as export or delete it emits
\* exactly one event, export.request or delete.request respectively, whose
\* payload is exactly the pid of the identity and the chat id; it emits no
\* checkin.save.
C22_RequestPayload ==
    /\ [][\A t \in 1..Len(tasks) :
            (Routes(t) /\ routed'.command \in {"export", "delete"}) =>
                LET chat_id == DictGet(EventOf(t).payload, "chat_id")
                IN  /\ Publishes
                    /\ pubs'[Len(pubs')].caller = t
                    /\ Published.name = RequestTopic(routed'.command)
                    /\ DOMAIN Published.payload = {"pid", "chat_id"}
                    /\ Published.payload.pid = HashChatId(chat_id)
                    /\ Published.payload.chat_id = chat_id
                    /\ chat_id \in idents']_vars
    /\ [](\A t \in RouterTasks :
            /\ Cardinality(PubsBy(t)) <= 1
            /\ (Routed1(t) /\ FirstMatch(EventOf(t).payload) \in {"export", "delete"}) =>
                  /\ Cardinality(PubsBy(t)) = 1
                  /\ \A p \in PubsBy(t) : pubs[p].event.name # "checkin.save")

\* C22 witness: the Router has emitted delete.request for an update whose
\* callback data is /delete, whose text is /checkin good and whose mood field
\* is 1.
C22_Witness ==
    \E t \in 1..Len(tasks) :
        /\ Routed1(t)
        /\ EventOf(t).payload.callback_data = "/delete"
        /\ EventOf(t).payload.mood = IntMood(1)
        /\ \E p \in PubsBy(t) :
              /\ pubs[p].event.name = "delete.request"
              /\ pubs[p].event.payload = RequestPayload(7)

\* normalize_update has returned a payload
Returned == norm.times >= 1 /\ norm.raised = NoneStr
\* the update holds both a message and a callback_query with its own message
BothMessages(update) ==
    /\ "message" \in DOMAIN update
    /\ "callback_query" \in DOMAIN update
    /\ "message" \in DOMAIN update["callback_query"]
\* the chat id a message carries, None when it carries none
ChatOf(message) ==
    IF "chat" \in DOMAIN message THEN DictGet(message["chat"], "id") ELSE None
\* the messages of an update in the order of their application
MessagesOf(update) ==
    LET m(key) == IF key \in DOMAIN update THEN <<update[key]>> ELSE <<>>
        c == IF "callback_query" \in DOMAIN update
             THEN m("callback_query")[1] ELSE EmptyDict
    IN  m("message") \o m("edited_message") \o
        (IF "message" \in DOMAIN c THEN <<c["message"]>> ELSE <<>>)
\* the value the last message for which has(message) holds gives, else none
LastOf(messages, has(_), value(_), none) ==
    LET with == {i \in 1..Len(messages) : has(messages[i])}
    IN  IF with = {} THEN none
        ELSE value(messages[CHOOSE i \in with : \A j \in with : j <= i])

\* C23 as stated: when an update holds both a top-level message and a
\* callback_query with its own message, the chat_id and the message_id of
\* the payload are those of the callback's message.
C23_CallbackMessageWins ==
    (Returned /\ BothMessages(norm.update)) =>
        LET message == norm.update["callback_query"]["message"]
        IN  /\ DictGet(norm.payload, "chat_id") = ChatOf(message)
            /\ DictGet(norm.payload, "message_id") = DictGet(message, "message_id")

\* C23 amended: when an update holds both a top-level message and a
\* callback_query with its own message, chat_id is the chat id of the
\* callback's message when that message carries one that is not null, and
\* message_id is its message_id when it has that key; a field the callback's
\* message does not carry keeps the value the messages applied before gave.
C23_CallbackMessageWinsWherePresent ==
    (Returned /\ BothMessages(norm.update)) =>
        LET message == norm.update["callback_query"]["message"]
            HasChat(m) == ChatOf(m) # None
            HasId(m) == "message_id" \in DOMAIN m
            Id(m) == m["message_id"]
        IN  /\ HasChat(message) => norm.payload["chat_id"] = ChatOf(message)
            /\ HasId(message) => norm.payload["message_id"] = Id(message)
            /\ DictGet(norm.payload, "chat_id") =
                  LastOf(MessagesOf(norm.update), HasChat, ChatOf, None)
            /\ DictGet(norm.payload, "message_id") =
                  LastOf(MessagesOf(norm.update), HasId, Id, None)

\* C23 witness: the outer message has chat 5 and message 10, the callback's
\* message chat 6 and message 11, and the payload has chat 6 and message 11.
C23_Witness ==
    /\ Returned
    /\ BothMessages(norm.update)
    /\ ChatOf(norm.update["message"]) = 5
    /\ DictGet(norm.update["message"], "message_id") = 10
    /\ DictGet(norm.payload, "chat_id") = 6
    /\ DictGet(norm.payload, "message_id") = 11

\* the date of a message parses: a number or an ISO-8601 string
Parses(message) ==
    /\ "date" \in DOMAIN message
    /\ DOMAIN message["date"] \in {{"num"}, {"iso"}}
\* the point in time a date that parses denotes
TimeOf(message) ==
    LET date == message["date"]
    IN  IF "num" \in DOMAIN date THEN date.num ELSE date.iso

\* C24: the payload normalize_update returns has a ts field that is a
\* datetime, never a raw string, whatever the dates of the raw update are
\* (number, ISO-8601 string, other string, missing, no message at all); it
\* is the current time when no date of the update parsed.
C24_TsAlwaysTimestamp ==
    Returned =>
        /\ "ts" \in DOMAIN norm.payload
        /\ norm.payload["ts"] \in {Datetime(n) : n \in Ts}
        /\ norm.payload["ts"] =
              Datetime(LastOf(MessagesOf(norm.update), Parses, TimeOf, norm.now))

\* C24 witness: the only date of the update is a string that is not
\* ISO-8601, and the payload returned at time 2 has ts = 2.
C24_Witness ==
    /\ Returned
    /\ norm.now = 2
    /\ "message" \in DOMAIN norm.update
    /\ "date" \in DOMAIN norm.update["message"]
    /\ norm.update["message"]["date"] = BadDate
    /\ "callback_query" \notin DOMAIN norm.update
    /\ norm.payload["ts"] = Datetime(2)

CanonicalFields ==
    {"update_id", "chat_id", "text", "callback_data", "message_id", "from_id"}

\* C25: normalize_update applied to the raw field of its own result returns
\* a payload with the same update_id, chat_id, text, callback_data,
\* message_id and from_id, and the same ts when a date of the input gave it.
C25_RawRoundTrip ==
    norm.times = 2 =>
        /\ norm.raised = NoneStr
        /\ \A k \in CanonicalFields :
              /\ k \in DOMAIN norm.payload <=> k \in DOMAIN norm.first
              /\ k \in DOMAIN norm.payload => norm.payload[k] = norm.first[k]
        /\ (\E i \in 1..Len(MessagesOf(norm.update)) :
                Parses(MessagesOf(norm.update)[i])) =>
              norm.payload["ts"] = norm.first["ts"]

\* C25 witness: an update with a message and a callback_query was normalized
\* at one time and its raw field at a later time, with the same chat_id,
\* callback_data and ts.
C25_Witness ==
    /\ norm.times = 2
    /\ BothMessages(norm.update)
    /\ "data" \in DOMAIN norm.update["callback_query"]
    /\ norm.first["ts"] # Datetime(norm.now)
    /\ norm.payload["ts"] = norm.first["ts"]
    /\ norm.payload["callback_data"] = "mood:1"
    /\ DictGet(norm.payload, "chat_id") = 6

\* None below every offset
AtMost(a, b) == a = None \/ (b # None /\ a <= b)

\* C26: the offset run_polling passes to get_updates is None until an update
\* with an integer update_id has been fetched, then one past the highest
\* update_id of all the updates fetched so far, and it never decreases from
\* one call to the next, whatever the order of the identifiers in a batch.
C26_OffsetOnePastHighest ==
    /\ \A i \in 1..Len(poll.calls) :
          poll.calls[i].offset =
              IF poll.calls[i].highest = None THEN None
              ELSE poll.calls[i].highest + 1
    /\ \A i, j \in 1..Len(poll.calls) :
          i <= j => AtMost(poll.calls[i].offset, poll.calls[j].offset)

\* C26 witness: the first batch listed the identifiers 2 and 0 in this
\* order, the second batch identifier 1, and the third call of get_updates
\* was made with offset 3 as the second was.
C26_Witness ==
    /\ Len(poll.calls) = 3
    /\ poll.ids = <<2, 0, 1>>
    /\ poll.calls[1].offset = None
    /\ poll.calls[2].offset = 3
    /\ poll.calls[3].offset = 3

\* C27: when get_updates raises an error run_polling does not end: it
\* publishes nothing, keeps its offset and sleeps a backoff of at most 5
\* seconds; after the backoff, unless cancelled, it calls get_updates again
\* with the same offset.
C27_FetchFailureRetried ==
    [][/\ (poll.fetch = "pending" /\ poll'.fetch = "failed") =>
              /\ poll'.pc = "backoff"
              /\ poll'.raised = NoneStr
              /\ pubs' = pubs
              /\ tasks' = tasks
              /\ poll'.offset = poll.offset
              /\ poll'.wait <= 5
              /\ poll'.calls = poll.calls
       /\ poll.pc = "backoff" =>
              /\ poll'.pc \in {"fetching", "cancelled"}
              /\ poll'.pc = "fetching" =>
                    /\ pubs' = pubs
                    /\ Len(poll'.calls) = Len(poll.calls) + 1
                    /\ poll'.calls[Len(poll'.calls)].offset = poll.offset
                    /\ poll'.calls[Len(poll'.calls)].offset =
                          poll.calls[Len(poll.calls)].offset]_vars

\* C27 witness: with an idle delay of 7 seconds, get_updates called with
\* offset 2 failed, the backoff was 5 seconds, and get_updates was called
\* again with offset 2.
C27_Witness ==
    /\ poll.pc = "fetching"
    /\ poll.idle_delay = 7
    /\ poll.wait = 5
    /\ Len(poll.calls) = 3
    /\ poll.calls[2].offset = 2
    /\ poll.calls[3].offset = 2

\* C28: run_polling ends only by cancellation, raised again to its caller
\* from the suspension point it was in; no content of a batch and no failure
\* of a handler makes it end with an error.
C28_EndsOnlyByCancellation ==
    /\ poll.pc # "failed"
    /\ poll.raised \in {NoneStr, "CancelledError"}
    /\ poll.pc = "cancelled" <=> poll.raised = "CancelledError"

\* C29: in run_webhook, once the server has started, WebhookServer.stop runs
\* on every way serving can end (cancellation, error, return), as soon as
\* serve_forever has ended; and a cancellation received while serving is
\* raised to the caller as CancelledError after that cleanup.
C29_StopOnEveryExit ==
    /\ [][(srv.pc \in {"serving", "leaving"} /\ srv'.pc \notin {"serving", "leaving"}) =>
             /\ srv'.pc = "stopping"
             /\ srv'.stops = srv.stops + 1
             /\ srv'.server = "closed"]_vars
    /\ [](srv.pc = "ended" /\ srv.how # NoneStr =>
             /\ srv.stops = 1
             /\ srv.server # "listening"
             /\ srv.how = "cancelled" => srv.raised = "CancelledError"
             /\ srv.how = "returned" => srv.raised \in {NoneStr, "CancelledError"}
             /\ srv.how = "error" => srv.raised \in {"OSError", "CancelledError"})

\* C29 witness: serving was cancelled after a request had been answered,
\* stop has run, and run_webhook has raised CancelledError.
C29_Witness ==
    /\ srv.pc = "ended"
    /\ srv.how = "cancelled"
    /\ srv.stops = 1
    /\ srv.server = "none"
    /\ srv.raised = "CancelledError"
    /\ wh.pc = "returned"

\* the publish calls made from outside the bus in this round
TopLevel == {p \in 1..Len(pubs) : pubs[p].caller = 0}
\* the call of Dedup for publish p has run and republished
Republished(p) ==
    \E t \in 1..Len(tasks) :
        tasks[t].pub = p /\ tasks[t].handler = DedupH /\ PubsBy(t) # {}
\* the call of Dedup for publish p has run
Deduplicated(p) ==
    \E t \in 1..Len(tasks) :
        tasks[t].pub = p /\ tasks[t].handler = DedupH /\ tasks[t].state # "ready"

\* C30: of two unannotated tg.update events with the same identifier and
\* timestamps less than the window apart, published concurrently by two
\* tasks, exactly one is republished by Dedup (none only when an earlier
\* republish of the identifier suppresses both).
C30_ConcurrentRepublishedOnce ==
    \A p, q \in TopLevel :
        ( /\ p < q
          /\ Deduplicated(p)
          /\ Deduplicated(q)
          /\ pubs[p].event.payload.update_id = pubs[q].event.payload.update_id
          /\ Abs(pubs[p].event.payload.ts - pubs[q].event.payload.ts) < Window )
        => /\ ~(Republished(p) /\ Republished(q))
           /\ Republished(p) \/ Republished(q)
                \/ pubs[p].event.payload.update_id \in DOMAIN lastRepub

\* Task t holds an update that carries the dedup_passed annotation.
Annotated(t) == DedupPassed(EventOf(t).metadata)

\* C31: Dedup passes a tg.update that carries the dedup_passed annotation
\* through without checking it: handle_update publishes nothing for it and
\* leaves the mapping and the FIFO as they are, whether or not its identifier
\* is cached.
C31_AnnotatedPassedThrough ==
    [][\A t \in 1..Len(tasks) :
          (Runs(t, DedupH) /\ Annotated(t)) =>
              /\ ~Publishes
              /\ seen' = seen
              /\ order' = order
              /\ tasks'[t].state = "done"]_vars

\* C31 witness: Dedup recorded an update and republished it, and has
\* returned from the annotated republish, whose identifier the mapping holds,
\* without a publish of its own.
C31_Witness ==
    \E t \in 1..Len(tasks) :
        /\ tasks[t].handler = DedupH /\ tasks[t].state = "done"
        /\ Annotated(t) /\ PubsBy(t) = {}
        /\ IdOf(t) \in DOMAIN seen
        /\ pubs[tasks[t].pub].caller # 0

\* Task t holds an unannotated update whose identifier the mapping holds with
\* a timestamp within the window of the update's.
Duplicate(t) ==
    /\ ~Annotated(t)
    /\ IdOf(t) \in DOMAIN seen
    /\ IsDuplicate(seen[IdOf(t)], DedupTimestamp(EventOf(t).payload, clock))
\* This step records the update of task t and prunes: the FIFO is a suffix of
\* the FIFO with the pair of the update appended, the mapping a part of the
\* mapping with the update's entry set.
Records(t) ==
    LET timestamp == DedupTimestamp(EventOf(t).payload, clock)
        appended == Append(order, <<IdOf(t), timestamp>>)
        set == DictSet(seen, IdOf(t), timestamp)
    IN  /\ \E n \in 0..Len(appended) : order' = SubSeq(appended, n + 1, Len(appended))
        /\ DOMAIN seen' \subseteq DOMAIN set
        /\ \A k \in DOMAIN seen' : seen'[k] = set[k]
\* This step is the end of flush.
Flushes == flushPc = "sleeping" /\ flushPc' = "idle" /\ seen' = EmptyDict /\ order' = <<>>

\* C32: the cache of Dedup changes only when handle_update records an update
\* it republishes, pruning in the same call, and at the end of flush; a
\* duplicate within the window is suppressed with the mapping and the FIFO
\* left as they were, so a cached timestamp is the one of the last republish
\* of its identifier.
C32_CacheChangesOnlyByRecording ==
    /\ [][(seen' # seen \/ order' # order) =>
            \/ Flushes
            \/ \E t \in 1..Len(tasks) :
                  /\ Runs(t, DedupH) /\ Publishes /\ ~Annotated(t)
                  /\ IdOf(t) # None
                  /\ Records(t)]_vars
    /\ [][\A t \in 1..Len(tasks) :
            (Runs(t, DedupH) /\ Duplicate(t)) =>
                ~Publishes /\ seen' = seen /\ order' = order]_vars
    /\ [](\A k \in DOMAIN seen : k \in DOMAIN lastRepub /\ seen[k] = lastRepub[k])

\* C32 witness: Dedup has suppressed an update whose timestamp is later than
\* the one cached for its identifier, and the cached timestamp is the earlier
\* one still.
C32_Witness ==
    \E t \in 1..Len(tasks) :
        /\ tasks[t].handler = DedupH /\ tasks[t].state = "done"
        /\ Identified(t) /\ PubsBy(t) = {}
        /\ IdOf(t) \in DOMAIN seen
        /\ seen[IdOf(t)] < TsOf(t)
        /\ TsOf(t) - seen[IdOf(t)] <= Window

\* C33: when flush completes the mapping and the FIFO are both empty, cleared
\* in one step; an update whose identifier has not been republished since the
\* last flush, cached before it or not, is republished whatever its
\* timestamp.
C33_FlushClearsBoth ==
    /\ [][(flushPc = "sleeping" /\ flushPc' = "idle") =>
            (seen' = EmptyDict /\ order' = <<>>)]_vars
    /\ [][\A t \in 1..Len(tasks) :
            ( /\ Runs(t, DedupH)
              /\ Identified(t)
              /\ IdOf(t) \notin DOMAIN lastRepub ) => Publishes]_vars

\* the tasks of Dedup for the updates published from outside the bus
TopDedup ==
    {t \in 1..Len(tasks) : tasks[t].handler = DedupH /\ pubs[tasks[t].pub].caller = 0}

\* C33 witness: Dedup republished an update, flush ran to its end, and Dedup
\* republished a second update of the same identifier and timestamp; with
\* the timestamp 0 no pruning has removed the entry of the first.
C33_Witness ==
    /\ flushPc = "idle"
    /\ \E t, u \in TopDedup :
          /\ t < u
          /\ Identified(t) /\ Identified(u)
          /\ IdOf(t) = IdOf(u) /\ TsOf(t) = 0 /\ TsOf(u) = 0
          /\ PubsBy(t) # {} /\ PubsBy(u) # {}

\* C34: the FIFO holds its pairs in time-ascending order: the timestamps do
\* not decrease from the head to the tail, whatever the timestamps of the
\* updates delivered.
C34_FifoTimeAscending ==
    \A i \in 1..(Len(order) - 1) : order[i][2] <= order[i + 1][2]

\* the checkin.save events published, and the payload of the update each
\* was made from
CheckinPubs == {p \in 1..Len(pubs) : pubs[p].event.name = "checkin.save"}
UpdateOf(p) == EventOf(pubs[p].caller).payload
\* the timestamp the ts field of an update stands for: the datetime an
\* ISO-8601 string denotes, a datetime itself, else the current time
TimestampOf(update) ==
    LET ts == DictGet(update, "ts")
    IN  IF ts \in {IsoString(n) : n \in Ts} THEN CHOOSE n \in Ts : IsoString(n) = ts
        ELSE IF ts \in Ts THEN ts
        ELSE clock

\* C35: every checkin.save the Router emits has the payload keys pid,
\* chat_id, mood, ts and note; ts is a timestamp: the one an ISO-8601 string
\* of the update denotes, else the update's own timestamp, else the current
\* time; note is the note field of the update if it is present and not
\* empty, else its text.
C35_CheckinPayload ==
    \A p \in CheckinPubs :
        LET payload == pubs[p].event.payload
            update == UpdateOf(p)
        IN  /\ pubs[p].caller \in RouterTasks
            /\ DOMAIN payload = {"pid", "chat_id", "mood", "ts", "note"}
            /\ payload["ts"] \in Ts
            /\ payload["ts"] = TimestampOf(update)
            /\ payload["note"] =
                   IF DictGetStr(update, "note") \notin {NoneStr, ""}
                   THEN update["note"] ELSE DictGetStr(update, "text")

\* C35 witness: a check-in whose ts is an ISO-8601 string and whose note is
\* the empty string was saved with the datetime of the string, which is not
\* the current time, and with its text as note.
C35_Witness ==
    \E p \in CheckinPubs :
        /\ UpdateOf(p)["ts"] = IsoString(2)
        /\ UpdateOf(p)["note"] = ""
        /\ pubs[p].event.payload["ts"] = 2
        /\ clock # 2
        /\ pubs[p].event.payload["note"] = "/checkin good"

\* C36: when handle_update records an update with identifier X and timestamp
\* t and republishes it, the mapping holds X with t afterwards: the pruning
\* of the same call removes from the mapping only identifiers whose recorded
\* timestamp is more than the window older than t, never the entry just
\* recorded.
C36_RecordedEntryKept ==
    [][\A t \in 1..Len(tasks) :
          (Runs(t, DedupH) /\ ~Annotated(t) /\ IdOf(t) # None /\ Publishes) =>
              LET timestamp == DedupTimestamp(EventOf(t).payload, clock)
                  recorded == DictSet(seen, IdOf(t), timestamp)
              IN  /\ IdOf(t) \in DOMAIN seen'
                  /\ seen'[IdOf(t)] = timestamp
                  /\ \A k \in DOMAIN recorded \ DOMAIN seen' :
                        timestamp - recorded[k] > Window]_vars

\* the publish calls on tg.update, and the depth of a publish call: 1 for a
\* call from outside the bus, one more than its caller's for a handler's
TgPubs == {p \in 1..Len(pubs) : pubs[p].event.name = "tg.update"}
RECURSIVE Depth(_)
Depth(p) == IF pubs[p].caller = 0 THEN 1 ELSE 1 + Depth(tasks[pubs[p].caller].pub)
\* every publish call has returned and every task has finished
RoundDone == Quiescent /\ \A t \in 1..Len(tasks) : Finished(tasks[t])

\* C37: the publish of one unannotated tg.update on the wired bus
\* terminates: Dedup republishes on tg.update at most once, its handler
\* called for the annotated republish publishes nothing, the nesting depth
\* of publish on tg.update is at most two, and every publish returns with
\* all its tasks finished.
C37_PublishTerminates ==
    /\ [](/\ Cardinality(TgPubs) <= 2
          /\ \A p \in TgPubs : Depth(p) <= 2
          /\ \A t \in 1..Len(tasks) :
                (tasks[t].handler = DedupH /\ Annotated(t)) => PubsBy(t) = {})
    /\ (pubs # <<>>) ~> RoundDone

\* C37 witness: an unannotated update went through the pipeline: Dedup
\* republished it, Dedup and the Router ran for the republish, a domain event
\* was handled, and every publish has returned.
C37_Witness ==
    /\ RoundDone
    /\ Cardinality(TgPubs) = 2
    /\ \E p \in TgPubs : Depth(p) = 2
    /\ \E p \in DomainPubs : Depth(p) = 3
    /\ \E t \in 1..Len(tasks) :
          tasks[t].handler = DedupH /\ Annotated(t) /\ tasks[t].state = "done"

\* C38: a handler may publish on the bus while an outer publish is still
\* dispatching, and a second caller may publish meanwhile, without deadlock:
\* the lock of the bus is held at no suspension point, so never while
\* handlers run or are awaited; no publish call ever waits for it, and while
\* a publish call is in flight the event loop has a step to take.
InFlight == {p \in 1..Len(pubs) : pubs[p].state \in {"acquiring", "gather"}}
CanStep ==
    \/ \E t \in 1..Len(tasks) : tasks[t].state \in {"ready", "running"}
    \/ \E p \in 1..Len(pubs) : pubs[p].state = "gather" /\ GatherComplete(tasks, p)
C38_LockNeverBlocks ==
    /\ ~Locked(pubs)
    /\ \A p \in 1..Len(pubs) : pubs[p].state # "acquiring"
    /\ InFlight # {} => CanStep
\* a republish by Dedup is in flight inside a publish still in its gather,
\* while a second publish from outside is in its gather too
C38_Witness ==
    \E p, q, n \in 1..Len(pubs) :
        /\ p # q
        /\ pubs[p].caller = 0 /\ pubs[p].state = "gather"
        /\ pubs[q].caller = 0 /\ pubs[q].state = "gather"
        /\ pubs[n].caller # 0 /\ pubs[n].state = "gather"
        /\ tasks[pubs[n].caller].handler = DedupH
        /\ tasks[pubs[n].caller].pub = p
        /\ tasks[pubs[n].caller].state = "awaiting"

\* C39: for every annotated update that carries a chat id the Router calls
\* get_or_create_ident before it classifies the update: the identity record
\* of the chat exists after the call whatever the classification, also when
\* the command is unrecognized or the mood unresolvable and nothing is emitted.
C39_IdentBeforeClassifying ==
    [][\A t \in 1..Len(tasks) :
          Routes(t) =>
              /\ routed'.reached
              /\ idents' = idents \cup {DictGet(EventOf(t).payload, "chat_id")}]_vars
\* the Router has returned from /checkin x, a check-in whose mood cannot be
\* resolved: nothing was emitted and the identity record of the chat exists
C39_Witness ==
    \E t \in 1..Len(tasks) :
        /\ Routed1(t)
        /\ tasks[t].state = "done"
        /\ EventOf(t).payload.text = "/checkin x"
        /\ routed = Routed("checkin", None)
        /\ PubsBy(t) = {}
        /\ DictGet(EventOf(t).payload, "chat_id") \in idents

\* C40: process_request returns its 200 result only after its publish of the
\* tg.update has returned, and that is after every handler the update
\* triggered has finished: Dedup and its republish, the Router, the handlers
\* of the domain event.  No response exists while work of the pipeline for
\* the update is pending.
C40_ResponseAfterPipeline ==
    (wh.pc = "returned" /\ wh.status = 200) =>
        /\ pubs # <<>>
        /\ pubs[1].caller = 0 /\ pubs[1].event.name = "tg.update"
        /\ \A p \in 1..Len(pubs) : pubs[p].state \in {"returned", "raised"}
        /\ \A t \in 1..Len(tasks) : Finished(tasks[t])
\* the 200 result of a request with /export: Dedup republished the update,
\* the Router emitted export.request and its handler has finished
C40_Witness ==
    /\ wh.pc = "returned" /\ wh.status = 200
    /\ \E p, q \in 1..Len(pubs) :
          /\ pubs[p].caller # 0 /\ pubs[p].event.name = "tg.update"
          /\ tasks[pubs[p].caller].handler = DedupH
          /\ pubs[q].caller # 0 /\ pubs[q].event.name = "export.request"
          /\ tasks[pubs[q].caller].pub = p
          /\ \E t \in TasksOf(tasks, q) : tasks[t].state = "done"

====
